---------------------------- MODULE Spec2Model ----------------------------
(***************************************************************************)
(* A model of the task-sync plugin: the task parser and its multi-signal   *)
(* matcher, the debounced file watcher, the scan-and-append cycle and the  *)
(* two completion-propagation services (aggregator -> source and           *)
(* source -> aggregator).                                                  *)
(*                                                                         *)
(* A document is a sequence of lines.  A line is a record that keeps the   *)
(* structural facts the parser's regular expressions extract from the raw  *)
(* text: whether it is a checkbox line, the bracket state, the text left   *)
(* after stripping the adornments, the priority marker and the wikilink    *)
(* target.  Line numbers are 0-based as in the source.                     *)
(***************************************************************************)
EXTENDS Integers, Sequences, FiniteSets, TLC

VARIABLES
    oldStates,      \* matcher harness: the cached snapshot handed to matchTasks
    newStates,      \* matcher harness: the freshly parsed snapshot
    matches,        \* matcher harness: result of matchTasks
    changedTasks,   \* matcher harness: result of findChangedTasks
    matchPc,        \* matcher harness: "input" | "matched"
    pendingFile,    \* FileWatcherService.pendingFile (a path or NULL)
    debounceTimer,  \* FileWatcherService.debounceTimer with its captured fileToSync
    window,         \* history: the accepted paths since the watcher was last idle
    syncCalls,      \* history: the onSync calls made by the timer, [scope, window]
    watchPc,        \* watcher harness: "off" | "on"
    lastNotify,     \* history: the notification the watcher handled last
    scheduler,      \* the runtime's clock and timers: [now, due, live, bursts, ..]
    daily,          \* content of today's daily note (the aggregator)
    sources,        \* content of each source document
    listItems,      \* metadataCache: whether a file is reported to hold list items
    appends,        \* history: the appendNewTasks calls made so far
    appPc,          \* append harness: "off" | "first" | "second" | "done"
    dailyNote,      \* append harness: what getTodaysDailyNote() returns
    taskStateCache, \* ReverseSyncService.taskStateCache
    rsProcessing,   \* ReverseSyncService.isProcessing
    rsHandlers,     \* suspended calls of handleDailyNoteModified
    lastRead,       \* history: the snapshot handleDailyNoteModified parsed from its latest read
    syncedTasksCache, \* SourceToDailySyncService.syncedTasksCache
    s2dProcessing,  \* SourceToDailySyncService.isProcessing
    s2dHandlers,    \* suspended calls of handleSourceFileModified
    syncRuns,       \* suspended calls of syncPriorityTasks
    userLog,        \* history: what the user has done so far
    writes,         \* history: the number of vault.modify calls of the plugin
    sysPc,          \* plugin: "off" | "on"
    rawLine,        \* cleaner harness: the text of a line, as tokens
    cleaned,        \* cleaner harness: what cleanTaskText and formatTask made of it
    cleanPc,        \* cleaner harness: "off" | "input" | "cleaned" | "formatted"
    subs,           \* the active subscriptions of each service (a count)
    eventRefs,      \* whether the eventRef field of each service holds a reference
    delayTimers,    \* the pending 500 ms timers of the create handler
    initCalls,      \* suspended calls that lead to initializeReverseSync
    lifePc,         \* lifecycle harness: "off" | "stopped" | "running"
    lifeLog,         \* history: the startServices calls and create events so far
    failLog         \* history: the vault calls that failed, [service, at, raised, ..]

matchVars == <<oldStates, newStates, matches, changedTasks, matchPc>>
watcherVars == <<pendingFile, debounceTimer>>
watchHistVars == <<window, syncCalls, watchPc, lastNotify, scheduler>>
docVars == <<daily, sources, listItems>>
appendVars == <<appends, appPc, dailyNote>>
reverseVars == <<taskStateCache, rsProcessing, rsHandlers, lastRead>>
forwardVars == <<syncedTasksCache, s2dProcessing, s2dHandlers>>
cleanVars == <<rawLine, cleaned, cleanPc>>
lifeVars == <<subs, eventRefs, delayTimers, initCalls, lifePc, lifeLog>>
failVars == <<failLog>>
sysVars == <<reverseVars, forwardVars, syncRuns, userLog, writes, sysPc>>

vars == <<oldStates, newStates, matches, changedTasks, matchPc,
          pendingFile, debounceTimer, window, syncCalls, watchPc, lastNotify,
          scheduler,
          daily, sources, listItems, appends, appPc, dailyNote,
          taskStateCache, rsProcessing, rsHandlers, lastRead,
          syncedTasksCache, s2dProcessing, s2dHandlers,
          syncRuns, userLog, writes, sysPc,
          rawLine, cleaned, cleanPc,
          subs, eventRefs, delayTimers, initCalls, lifePc, lifeLog,
          failLog>>

----------------------------------------------------------------------------
(* Values *)

NULL == "null"

\* The vault: markdown paths of the source documents and of the daily note.
DailyPath == "daily.md"

\* Wikilink targets that occur in lines, and what they resolve to.
Links == {"a", "b", "daily", "gone"}

\* app.metadataCache.getFirstLinkpathDest(link, ''): the file the link
\* resolves to, NULL when no file matches.
getFirstLinkpathDest(link) ==
    CASE link = "a" -> "a.md"
      [] link = "b" -> "b.md"
      [] link = "daily" -> DailyPath
      [] OTHER -> NULL

\* linkTarget + '.md' (the literal fallback of extractSourcePath).
WithMdExtension(link) ==
    CASE link = "a" -> "a.md"
      [] link = "b" -> "b.md"
      [] link = "daily" -> DailyPath
      [] link = "gone" -> "gone.md"
      [] OTHER -> NULL

\* A line that is not a checkbox line.
OtherLine ==
    [kind |-> "other", checked |-> FALSE, text |-> "", prio |-> "none", link |-> NULL]

\* The section heading line of the daily note (settings.sectionHeader).
HeaderLine ==
    [kind |-> "heading", checked |-> FALSE, text |-> "## High Priority Tasks",
     prio |-> "none", link |-> NULL]

\* Another heading, which ends the section.
OtherHeading ==
    [kind |-> "heading", checked |-> FALSE, text |-> "## Notes",
     prio |-> "none", link |-> NULL]

TaskLine(text, prio, link, checked) ==
    [kind |-> "task", checked |-> checked, text |-> text, prio |-> prio, link |-> link]

\* The line that results when a task line is glued to the end of the heading
\* line: it starts with '#', is no checkbox line and is not the heading.
MergedLine(line) ==
    [kind |-> "merged", checked |-> FALSE, text |-> line.text, prio |-> line.prio,
     link |-> line.link]

Range(s) == {s[i] : i \in DOMAIN s}

RemoveAt(seq, i) == SubSeq(seq, 1, i - 1) \o SubSeq(seq, i + 1, Len(seq))

\* F applied to the value of e, which is computed once ("const x = e; F(x)").
Bind(e, F(_)) == CHOOSE r \in {F(x) : x \in {e}} : TRUE

----------------------------------------------------------------------------
(* TaskParser *)

\* CHECKBOX_REGEX.test(line)
isCheckbox(line) == line.kind = "task"

\* COMPLETED_CHECKBOX_REGEX.test(line)
isCompleted(line) == line.kind = "task" /\ line.checked

\* UNCOMPLETED_CHECKBOX_REGEX.test(line)
isUncompleted(line) == line.kind = "task" /\ ~line.checked

\* The text that is left once checkbox, priority markers, metadata and links
\* are removed and whitespace is normalised.
cleanTaskText(line) == line.text

extractPriority(line) ==
    IF line.prio = "highest" THEN "highest"
    ELSE IF line.prio = "high" THEN "high"
    ELSE NULL

extractSourcePath(line) ==
    IF line.link = NULL THEN NULL
    ELSE IF getFirstLinkpathDest(line.link) # NULL
         THEN getFirstLinkpathDest(line.link)
         ELSE WithMdExtension(line.link)

\* The TaskState of a checkbox line (parseTaskState is only applied to
\* checkbox lines here; parseAllTaskStates skips the others).
parseTaskState(line, lineNumber) ==
    [lineNumber   |-> lineNumber,
     cleanText    |-> cleanTaskText(line),
     priority     |-> extractPriority(line),
     checked      |-> line.checked,
     sourcePath   |-> extractSourcePath(line),
     originalLine |-> line]

\* Map<number, TaskState>: a function from the 0-based numbers of the
\* checkbox lines to their states.  The Map iterates in insertion order,
\* which is increasing line number.
parseAllTaskStates(content) ==
    [n \in {i - 1 : i \in {j \in DOMAIN content : isCheckbox(content[j])}}
        |-> parseTaskState(content[n + 1], n)]

\* The keys of a snapshot in iteration order.
KeysInOrder(S) ==
    [i \in 1..Cardinality(S) |->
        CHOOSE x \in S : Cardinality({y \in S : y < x}) = i - 1]

\* The "no old state" of a TaskMatch.
NoState ==
    [lineNumber |-> -1, cleanText |-> "", priority |-> NULL, checked |-> FALSE,
     sourcePath |-> NULL, originalLine |-> OtherLine]

TextScore == 3
PriorityScore == 1
LineScore == 1
MatchThreshold == 2

\* A score in which the line number counts as much as two signals.
ScoreLineCountsTwo(oldState, newState, oldLineNum, newLineNum) ==
    (IF oldState.cleanText = newState.cleanText THEN TextScore ELSE 0)
  + (IF oldState.priority = newState.priority THEN PriorityScore ELSE 0)
  + (IF oldLineNum = newLineNum THEN LineScore + LineScore ELSE 0)

\* The score of one old task against one new task (the three signals).
Score(oldState, newState, oldLineNum, newLineNum) ==
    (IF oldState.cleanText = newState.cleanText THEN TextScore ELSE 0)
  + (IF oldState.priority = newState.priority THEN PriorityScore ELSE 0)
  + (IF oldLineNum = newLineNum THEN LineScore ELSE 0)

\* A matcher that accepts a single weak signal.
AcceptsOneSignal(score, best) ==
    score >= 1 /\ (best.score = 0 \/ score > best.score)

\* Whether a candidate replaces the best match found so far
\* (score >= 2 && (!bestMatch || score > bestMatch.score)).
Accepts(score, best) ==
    score >= MatchThreshold /\ (best.score = 0 \/ score > best.score)

\* The "bestMatch = null" of the inner loop.
NoBest == [oldState |-> NoState, score |-> 0]

\* The inner loop of matchTasks: the best old task for one new task among
\* the old tasks keys[k..], given the best found before them.
RECURSIVE BestMatch(_, _, _, _, _, _)
BestMatch(olds, keys, k, matchedOldKeys, newState, best) ==
    IF k > Len(keys) THEN best
    ELSE LET oldLineNum == keys[k]
             oldState == olds[oldLineNum]
             score == Score(oldState, newState, oldLineNum, newState.lineNumber)
         IN  IF oldLineNum \in matchedOldKeys
             THEN BestMatch(olds, keys, k + 1, matchedOldKeys, newState, best)
             ELSE IF Accepts(score, best)
                  THEN BestMatch(olds, keys, k + 1, matchedOldKeys, newState,
                                 [oldState |-> oldState, score |-> score])
                  ELSE BestMatch(olds, keys, k + 1, matchedOldKeys, newState, best)

\* An outer loop that never adds to matchedOldKeys.
RECURSIVE MatchLoopNoConsume(_, _, _, _, _, _)
MatchLoopNoConsume(olds, oldKeys, news, newKeys, k, matchedOldKeys) ==
    IF k > Len(newKeys) THEN <<>>
    ELSE Bind(BestMatch(olds, oldKeys, 1, matchedOldKeys, news[newKeys[k]], NoBest),
              LAMBDA best :
                <<[newState |-> news[newKeys[k]], oldState |-> best.oldState,
                   checkedChanged |->
                       best # NoBest /\ best.oldState.checked # news[newKeys[k]].checked]>>
                \o MatchLoopNoConsume(olds, oldKeys, news, newKeys, k + 1,
                                      matchedOldKeys))

\* The outer loop of matchTasks over the new tasks newKeys[k..]; oldKeys are
\* the keys of the old snapshot in iteration order.
RECURSIVE MatchLoop(_, _, _, _, _, _)
MatchLoop(olds, oldKeys, news, newKeys, k, matchedOldKeys) ==
    IF k > Len(newKeys) THEN <<>>
    ELSE Bind(BestMatch(olds, oldKeys, 1, matchedOldKeys, news[newKeys[k]], NoBest),
              LAMBDA best :
                IF best # NoBest
                THEN <<[newState |-> news[newKeys[k]], oldState |-> best.oldState,
                        checkedChanged |->
                            best.oldState.checked # news[newKeys[k]].checked]>>
                     \o MatchLoop(olds, oldKeys, news, newKeys, k + 1,
                                  matchedOldKeys \cup {best.oldState.lineNumber})
                ELSE <<[newState |-> news[newKeys[k]], oldState |-> NoState,
                        checkedChanged |-> FALSE]>>
                     \o MatchLoop(olds, oldKeys, news, newKeys, k + 1,
                                  matchedOldKeys))

matchTasks(olds, news) ==
    Bind(KeysInOrder(DOMAIN olds), LAMBDA oldKeys :
        Bind(KeysInOrder(DOMAIN news), LAMBDA newKeys :
            MatchLoop(olds, oldKeys, news, newKeys, 1, {})))

\* The map step of findChangedTasks.
ChangedEntries(keep) ==
    [i \in DOMAIN keep |->
        [state |-> keep[i].newState, nowChecked |-> keep[i].newState.checked]]

\* A findChangedTasks that forgets the checkedChanged filter.
findChangedTasksNoFilter(olds, news) ==
    Bind(SelectSeq(matchTasks(olds, news), LAMBDA m : m.oldState # NoState),
         ChangedEntries)

\* findChangedTasks: the matched tasks whose checked state changed.
findChangedTasks(olds, news) ==
    Bind(SelectSeq(matchTasks(olds, news),
                   LAMBDA m : m.checkedChanged /\ m.oldState # NoState),
         ChangedEntries)

----------------------------------------------------------------------------
(* TaskParser.cleanTaskText and DailyNoteService.formatTask on the text of  *)
(* a line.  The text is a sequence of tokens, each standing for a piece of  *)
(* text that the regular expressions of cleanTaskText treat as a unit:      *)
(*   "box"    the checkbox prefix "- [ ]"                                   *)
(*   "prio"   a priority emoji                                              *)
(*   "meta"   a Tasks-plugin metadata emoji other than the done emoji       *)
(*   "done"   the done emoji                                                *)
(*   "date"   a date yyyy-mm-dd                                             *)
(*   "wiki"   a wikilink [[target]]                                         *)
(*   "mdlink" a markdown link [text](url)                                   *)
(*   "ws"     one whitespace character                                      *)
(*   "word"   a word without brackets, parentheses, digits or emoji         *)

Tokens == {"box", "prio", "meta", "done", "date", "wiki", "mdlink", "ws", "word"}

\* The number of "ws" tokens of t from position i on, up to the next other
\* token.
RECURSIVE BlanksFrom(_, _)
BlanksFrom(t, i) ==
    IF i > Len(t) \/ t[i] # "ws" THEN 0 ELSE 1 + BlanksFrom(t, i + 1)

\* replace(/^\s*-\s*\[[ xX]\]\s*/, ''): a checkbox prefix at the start of
\* the text, with the whitespace around it.
StripCheckbox(t) ==
    LET b == BlanksFrom(t, 1) + 1
    IN  IF b <= Len(t) /\ t[b] = "box"
        THEN SubSeq(t, b + 1 + BlanksFrom(t, b + 1), Len(t))
        ELSE t

\* replace(/x/g, '') for single tokens.
RemoveAll(t, removed) == SelectSeq(t, LAMBDA x : x \notin removed)

\* replace(/[done meta]\s*\d{4}-\d{2}-\d{2}/g, ''), from position i on.
RECURSIVE StripDatedFrom(_, _)
StripDatedFrom(t, i) ==
    IF i > Len(t) THEN <<>>
    ELSE LET d == i + 1 + BlanksFrom(t, i + 1)
         IN  IF t[i] \in {"meta", "done"} /\ d <= Len(t) /\ t[d] = "date"
             THEN StripDatedFrom(t, d + 1)
             ELSE <<t[i]>> \o StripDatedFrom(t, i + 1)

\* replace(/\s+/g, ' '), from position i on.
RECURSIVE CollapseBlanksFrom(_, _)
CollapseBlanksFrom(t, i) ==
    IF i > Len(t) THEN <<>>
    ELSE IF t[i] = "ws"
         THEN <<"ws">> \o CollapseBlanksFrom(t, i + BlanksFrom(t, i))
         ELSE <<t[i]>> \o CollapseBlanksFrom(t, i + 1)

\* trim() of a text whose whitespace has been collapsed.
Trim(t) ==
    LET from == IF t # <<>> /\ t[1] = "ws" THEN 2 ELSE 1
        to == IF t # <<>> /\ t[Len(t)] = "ws" THEN Len(t) - 1 ELSE Len(t)
    IN  SubSeq(t, from, to)

\* TaskParser.cleanTaskText on the text of a line: the seven replacements
\* in their order.
cleanTaskTextTokens(t) ==
    Trim(CollapseBlanksFrom(
        RemoveAll(RemoveAll(RemoveAll(
            StripDatedFrom(RemoveAll(StripCheckbox(t), {"prio"}), 1),
            {"done"}), {"wiki"}), {"mdlink"}), 1))

\* UNCOMPLETED_CHECKBOX_REGEX.test(line) and extractPriority(line) # null on
\* the text of a line: what parseFile requires of a task.
IsScannedTask(t) ==
    /\ BlanksFrom(t, 1) + 1 <= Len(t)
    /\ t[BlanksFrom(t, 1) + 1] = "box"
    /\ \E i \in DOMAIN t : t[i] = "prio"

\* formatTask: `- [ ] ${cleanText} ${priorityEmoji} ${link}`, where link is
\* the wikilink or the markdown link that generateMarkdownLink returns.
formatTaskTokens(cleanText, link) ==
    <<"box", "ws">> \o cleanText \o <<"ws", "prio", "ws", link>>

NoCleaned == [once |-> <<>>, twice |-> <<>>, formatted |-> <<>>, back |-> <<>>]

----------------------------------------------------------------------------
(* FileWatcherService *)

\* The documents of the vault that raise change notifications.
SourcePaths == {"a.md", "b.md"}
ExcludedPath == "excluded.md"
ImagePath == "image.png"
VaultPaths == SourcePaths \cup {DailyPath, ExcludedPath, ImagePath}

\* file.path.endsWith('.md')
IsMarkdown(path) == path # ImagePath

\* Settings that exclude nothing.
isExcludedNever(path) == FALSE

\* TaskScannerService.isExcluded with settings.excludedFiles = [ExcludedPath].
isExcluded(path) == path = ExcludedPath

\* dailyNoteService.getTodaysDailyNotePath()
getTodaysDailyNotePath == DailyPath

\* A shouldTriggerSync without the comparison with the daily note's path.
shouldTriggerSyncAnyMarkdown(path) ==
    /\ IsMarkdown(path)
    /\ ~isExcluded(path)

shouldTriggerSync(path) ==
    /\ IsMarkdown(path)
    /\ ~(getTodaysDailyNotePath # NULL /\ path = getTodaysDailyNotePath)
    /\ ~isExcluded(path)

NoTimer == [armed |-> FALSE, fileToSync |-> NULL]

\* The pending file after an accepted notification for path.
NextPendingFile(pending, path) ==
    IF pending # NULL /\ pending # path THEN NULL ELSE path

\* handleModify(file): the watcher's part of a change notification.
handleModify(path) ==
    IF ~shouldTriggerSync(path)
    THEN UNCHANGED watcherVars
    ELSE /\ pendingFile' = NextPendingFile(pendingFile, path)
         /\ debounceTimer' = [armed |-> TRUE,
                              fileToSync |-> NextPendingFile(pendingFile, path)]

\* The debounce delay (settings.debounceMs), in ticks of the clock.
DebounceDelay == 2

\* The runtime before anything was scheduled: the time, the time the pending
\* timer is due, the number of timers that are scheduled and not cleared, the
\* number of bursts begun, and the times of the first and of the last
\* accepted notification of the burst.
NoSchedule ==
    [now |-> 0, due |-> 0, live |-> 0, bursts |-> 0, firstAt |-> 0, lastAt |-> 0]

\* A handleModify that leaves the previous timer running.
ClearTimeoutNever(timer, live) == live

\* if (this.debounceTimer) clearTimeout(this.debounceTimer): the number of
\* scheduled timers left.
ClearTimeout(timer, live) == IF timer.armed THEN live - 1 ELSE live

\* The runtime after handleModify(path) at time sched.now: an accepted
\* notification clears the pending timer and schedules one that is due after
\* the debounce delay.
Reschedule(sched, timer, path) ==
    IF ~shouldTriggerSync(path) THEN sched
    ELSE [now |-> sched.now,
          due |-> sched.now + DebounceDelay,
          live |-> ClearTimeout(timer, sched.live) + 1,
          bursts |-> IF timer.armed THEN sched.bursts ELSE sched.bursts + 1,
          firstAt |-> IF timer.armed THEN sched.firstAt ELSE sched.now,
          lastAt |-> sched.now]

\* Whether handleModify(path) reaches its clearTimeout / setTimeout.
SetsTimer(path) == shouldTriggerSync(path)

\* No notification since the watcher started or its timer fired.
NoNotify == [path |-> NULL, pending |-> NULL, timer |-> NoTimer, timerSet |-> FALSE]

\* A timer callback that resets the timer only.
TimerExpiresKeepsPending ==
    /\ debounceTimer.armed
    /\ debounceTimer' = NoTimer
    /\ UNCHANGED pendingFile

\* The head of the timer callback: the timer and the pending file are reset
\* before onSync(fileToSync ?? undefined) is called.
TimerExpires ==
    /\ debounceTimer.armed
    /\ debounceTimer' = NoTimer
    /\ pendingFile' = NULL

\* The scope onSync is called with: a path, or FullScan for undefined.
FullScan == "FULL SCAN"
SyncScope(timer) == IF timer.fileToSync = NULL THEN FullScan ELSE timer.fileToSync

\* Whether an error thrown by onSync leaves the timer callback: the call is
\* inside try / catch, and the catch block only logs.
CallbackRaises(threw) == FALSE

----------------------------------------------------------------------------
(* TaskScannerService *)

\* app.vault.getMarkdownFiles(), in the vault's order.
MarkdownFiles == <<"a.md", "b.md", DailyPath, ExcludedPath>>

\* The content of the excluded document: an eligible task line.
ExcludedContent == <<TaskLine("salt", "highest", NULL, FALSE)>>

\* The content vault.read returns for a file.
Content(path) ==
    IF path = DailyPath THEN daily
    ELSE IF path \in SourcePaths THEN sources[path]
    ELSE IF path = ExcludedPath THEN ExcludedContent
    ELSE <<>>

\* hasListItems(file): the metadata cache's hint.
hasListItems(path) == listItems[path]

\* What the hint reports once the cache has caught up with the content.
HasCheckboxLine(content) == \E i \in DOMAIN content : isCheckbox(content[i])

\* parseFile: the uncompleted checkbox lines with a priority marker, from
\* line i on, in document order.
RECURSIVE ParseFrom(_, _, _)
ParseFrom(path, content, i) ==
    IF i > Len(content) THEN <<>>
    ELSE LET line == content[i]
         IN  IF isUncompleted(line) /\ extractPriority(line) # NULL
             THEN <<[originalLine |-> line,
                     cleanText    |-> cleanTaskText(line),
                     filePath     |-> path,
                     lineNumber   |-> i - 1,
                     priority     |-> extractPriority(line)]>>
                  \o ParseFrom(path, content, i + 1)
             ELSE ParseFrom(path, content, i + 1)

parseFile(path, content) == ParseFrom(path, content, 1)

\* An incremental scan that skips a file the hint reports as without list
\* items.
scanFileWithHint(path) ==
    IF isExcluded(path) \/ ~hasListItems(path) THEN <<>>
    ELSE parseFile(path, Content(path))

\* scanFile(file): the incremental scan, which does not consult the hint.
scanFile(path) ==
    IF isExcluded(path) THEN <<>> ELSE parseFile(path, Content(path))

\* The loop of scanVault over files[k..].
RECURSIVE ScanFiles(_, _)
ScanFiles(files, k) ==
    IF k > Len(files) THEN <<>>
    ELSE IF isExcluded(files[k]) \/ ~hasListItems(files[k])
         THEN ScanFiles(files, k + 1)
         ELSE parseFile(files[k], Content(files[k])) \o ScanFiles(files, k + 1)

\* The (stable) sort of scanVault: 'highest' before the rest.
SortByPriority(tasks) ==
    SelectSeq(tasks, LAMBDA t : t.priority = "highest")
    \o SelectSeq(tasks, LAMBDA t : t.priority # "highest")

\* scanVault(file): file = FullScan stands for the call without a file.
scanVault(scope) ==
    IF scope # FullScan THEN scanFile(scope)
    ELSE SortByPriority(ScanFiles(MarkdownFiles, 1))

----------------------------------------------------------------------------
(* TaskSyncPlugin.syncPriorityTasks and DailyNoteService *)

\* Settings.
includeHighest == TRUE
includeHigh == TRUE
taskLimit == 2

filterByPriority(tasks) ==
    SelectSeq(tasks, LAMBDA t : \/ (t.priority = "highest" /\ includeHighest)
                                \/ (t.priority = "high" /\ includeHigh))

\* A limit that is applied to every scan, incremental ones included.
limitedTasksAlways(scope, filtered) ==
    IF taskLimit > 0
    THEN SubSeq(filtered, 1, IF Len(filtered) < taskLimit THEN Len(filtered) ELSE taskLimit)
    ELSE filtered

\* The task limit, applied to full scans only.
limitedTasks(scope, filtered) ==
    IF scope = FullScan /\ taskLimit > 0
    THEN SubSeq(filtered, 1, IF Len(filtered) < taskLimit THEN Len(filtered) ELSE taskLimit)
    ELSE filtered

\* line.trim() === settings.sectionHeader.trim()
IsSectionHeader(line) == line.kind = "heading" /\ line.text = HeaderLine.text

\* line.trim().startsWith('#')
StartsWithHash(line) == line.kind \in {"heading", "merged"}

\* lines.findIndex(...) + 1: the 1-based position of the section heading,
\* 0 when there is none.
HeaderIndex(content) ==
    IF \E i \in DOMAIN content : IsSectionHeader(content[i])
    THEN CHOOSE i \in DOMAIN content :
            /\ IsSectionHeader(content[i])
            /\ \A j \in 1..(i - 1) : ~IsSectionHeader(content[j])
    ELSE 0

\* The end of the section: the position of the next '#' line, or one past
\* the last line.
SectionEnd(content) ==
    LET h == HeaderIndex(content)
        stops == {i \in (h + 1)..Len(content) : StartsWithHash(content[i])}
    IN  IF stops = {} THEN Len(content) + 1
        ELSE CHOOSE i \in stops : \A j \in stops : i <= j

\* readExistingTasks: the checkbox lines of the section, as SyncedTasks.
readExistingTasks(content) ==
    Bind(IF HeaderIndex(content) = 0 THEN <<>>
         ELSE KeysInOrder({i \in (HeaderIndex(content) + 1)..(SectionEnd(content) - 1) :
                              isCheckbox(content[i])}),
         LAMBDA idx :
            [k \in DOMAIN idx |->
                [cleanText  |-> cleanTaskText(content[idx[k]]),
                 line       |-> content[idx[k]],
                 completed  |-> content[idx[k]].checked,
                 lineNumber |-> idx[k] - 1]])

\* app.fileManager.generateMarkdownLink(sourceFile, dailyNote.path): the
\* wikilink target for a file.
LinkTo(path) ==
    CASE path = "a.md" -> "a"
      [] path = "b.md" -> "b"
      [] path = DailyPath -> "daily"
      [] OTHER -> "gone"

\* formatTask: "- [ ] {cleanText} {priorityEmoji} {link}"
formatTask(task) ==
    TaskLine(task.cleanText, task.priority, LinkTo(task.filePath), FALSE)

\* The dedup set of appendNewTasks: the clean texts that block a candidate.
existingCleanTexts(existingTasks) ==
    {t.cleanText : t \in {x \in Range(existingTasks) : ~x.completed}}

\* content.slice(0, insertPoint) + taskBlock + content.slice(insertPoint),
\* with the heading at position h and taskBlock the lines of block, each
\* followed by a newline.  When the heading is the last line of a content
\* without trailing newline, insertPoint lies one past the end of the content.
InsertBlock(content, h, block) ==
    IF h < Len(content)
    THEN SubSeq(content, 1, h) \o block \o SubSeq(content, h + 1, Len(content))
    ELSE SubSeq(content, 1, h - 1) \o <<MergedLine(block[1])>> \o Tail(block)
         \o <<OtherLine>>

\* An appendNewTasks that creates the section at the top of the daily note
\* when the heading is missing.
appendNewTasksCreatingSection(content, existing, tasks) ==
    IF tasks = <<>>
    THEN [write |-> FALSE, count |-> 0, inserted |-> <<>>, newContent |-> content]
    ELSE [write |-> TRUE, count |-> Len(tasks), inserted |-> tasks,
          newContent |-> <<HeaderLine>>
                         \o [i \in DOMAIN tasks |-> formatTask(tasks[i])] \o content]

\* appendNewTasks(dailyNote, tasks), given what its two reads of the daily
\* note returned (content for the insert point, existing for the dedup set):
\* the tasks it inserts, the count it returns, and the content it writes
\* (write = FALSE: vault.modify is not called).
appendNewTasks(content, existing, tasks) ==
    Bind(existingCleanTexts(readExistingTasks(existing)), LAMBDA blocked :
        Bind(SelectSeq(tasks, LAMBDA t : t.cleanText \notin blocked), LAMBDA newTasks :
            IF HeaderIndex(content) = 0 \/ newTasks = <<>>
            THEN [write |-> FALSE, count |-> 0, inserted |-> <<>>,
                  newContent |-> content]
            ELSE [write |-> TRUE, count |-> Len(newTasks), inserted |-> newTasks,
                  newContent |-> InsertBlock(content, HeaderIndex(content),
                      [i \in DOMAIN newTasks |-> formatTask(newTasks[i])])]))

----------------------------------------------------------------------------
(* ReverseSyncService and SourceToDailySyncService *)

\* app.vault.getAbstractFileByPath(path) instanceof TFile
FileExists(path) == path \in SourcePaths \cup {DailyPath, ExcludedPath}

\* The position of the last checkbox line whose clean text is text.
LastTaskIndex(content, text) ==
    LET hits == {i \in DOMAIN content :
                    isCheckbox(content[i]) /\ cleanTaskText(content[i]) = text}
    IN  IF hits = {} THEN 0 ELSE CHOOSE i \in hits : \A j \in hits : i >= j

\* The position of the first checkbox line whose clean text is text, 0 when
\* there is none.
FirstTaskIndex(content, text) ==
    LET hits == {i \in DOMAIN content :
                    isCheckbox(content[i]) /\ cleanTaskText(content[i]) = text}
    IN  IF hits = {} THEN 0 ELSE CHOOSE i \in hits : \A j \in hits : i <= j

\* oldLine.replace(/^(\s*-\s*)\[ \]/, '$1[x]') when checked, and
\* oldLine.replace(/^(\s*-\s*)\[[xX]\]/, '$1[ ]') otherwise, on a checkbox line.
SetCheckbox(line, checked) == [line EXCEPT !.checked = checked]

\* syncToggleToSource before its read: it returns at once when the line has
\* no source path or the path is no file.
ReadsSource(state) == state.sourcePath # NULL /\ FileExists(state.sourcePath)

\* A syncToggleToSource that falls back to the first checkbox line of the
\* source when no line has the task's text.
syncToggleToSourceAnyLine(content, state, checked) ==
    LET boxes == {i \in DOMAIN content : isCheckbox(content[i])}
        m == IF FirstTaskIndex(content, state.cleanText) # 0
             THEN FirstTaskIndex(content, state.cleanText)
             ELSE IF boxes = {} THEN 0 ELSE CHOOSE i \in boxes : \A j \in boxes : i <= j
    IN  IF m = 0 \/ SetCheckbox(content[m], checked) = content[m]
        THEN [write |-> FALSE, newContent |-> content]
        ELSE [write |-> TRUE,
              newContent |-> [content EXCEPT ![m] = SetCheckbox(content[m], checked)]]

\* syncToggleToSource after its read returned content: whether it calls
\* vault.modify, and with which content.
syncToggleToSource(content, state, checked) ==
    LET m == FirstTaskIndex(content, state.cleanText)
    IN  IF m = 0 \/ SetCheckbox(content[m], checked) = content[m]
        THEN [write |-> FALSE, newContent |-> content]
        ELSE [write |-> TRUE,
              newContent |-> [content EXCEPT ![m] = SetCheckbox(content[m], checked)]]

\* The next entry of changedTasks, from k on, for which syncToggleToSource
\* reads a source; 0 when the loop runs to its end without reading.
NextToSync(changed, k) ==
    LET rest == {j \in k..Len(changed) : ReadsSource(changed[j].state)}
    IN  IF rest = {} THEN 0 ELSE CHOOSE j \in rest : \A l \in rest : j <= l

\* Map.set(cleanText, info) on the insertion-ordered syncedTasksCache.
MapSet(cache, entry) ==
    IF \E i \in DOMAIN cache : cache[i].cleanText = entry.cleanText
    THEN [i \in DOMAIN cache |->
             IF cache[i].cleanText = entry.cleanText THEN entry ELSE cache[i]]
    ELSE Append(cache, entry)

\* The loop of buildSyncedTasksCache over lines i.. of the daily note.
RECURSIVE BuildCacheFrom(_, _, _)
BuildCacheFrom(content, i, cache) ==
    IF i > Len(content) THEN cache
    ELSE LET line == content[i]
         IN  IF ~isCheckbox(line) \/ extractSourcePath(line) = NULL
             THEN BuildCacheFrom(content, i + 1, cache)
             ELSE BuildCacheFrom(content, i + 1,
                     MapSet(cache, [cleanText  |-> cleanTaskText(line),
                                    sourcePath |-> extractSourcePath(line),
                                    checked    |-> isCompleted(line)]))

buildSyncedTasksCache(content) == BuildCacheFrom(content, 1, <<>>)

\* The cache entries that name path as their source.
tasksInFile(cache, path) == SelectSeq(cache, LAMBDA entry : entry.sourcePath = path)

\* The position of the first checkbox line with a priority marker whose clean
\* text is text, 0 when there is none.
FirstPriorityTaskIndex(content, text) ==
    LET hits == {i \in DOMAIN content :
                    /\ isCheckbox(content[i])
                    /\ extractPriority(content[i]) # NULL
                    /\ cleanTaskText(content[i]) = text}
    IN  IF hits = {} THEN 0 ELSE CHOOSE i \in hits : \A j \in hits : i <= j

\* The changes handleSourceFileModified collects from the source content.
SourceChanges(content, tasks) ==
    Bind(SelectSeq(tasks, LAMBDA entry :
            /\ FirstPriorityTaskIndex(content, entry.cleanText) # 0
            /\ isCompleted(content[FirstPriorityTaskIndex(content, entry.cleanText)])
                   # entry.checked),
         LAMBDA changed :
            [k \in DOMAIN changed |->
                [cleanText  |-> changed[k].cleanText,
                 nowChecked |-> isCompleted(
                     content[FirstPriorityTaskIndex(content, changed[k].cleanText)])]])

\* A variant of updateDailyNoteTask that writes the opposite bracket state.
updateDailyNoteTaskInverted(content, cleanText, checked) ==
    LET m == FirstTaskIndex(content, cleanText)
    IN  IF m = 0 \/ SetCheckbox(content[m], ~checked) = content[m]
        THEN [write |-> FALSE, newContent |-> content]
        ELSE [write |-> TRUE,
              newContent |-> [content EXCEPT ![m] = SetCheckbox(content[m], ~checked)]]

\* updateDailyNoteTask after its read returned content: whether it calls
\* vault.modify, and with which content.
updateDailyNoteTask(content, cleanText, checked) ==
    LET m == FirstTaskIndex(content, cleanText)
    IN  IF m = 0 \/ SetCheckbox(content[m], checked) = content[m]
        THEN [write |-> FALSE, newContent |-> content]
        ELSE [write |-> TRUE,
              newContent |-> [content EXCEPT ![m] = SetCheckbox(content[m], checked)]]

\* info.checked = nowChecked on the entry for cleanText, if there is one.
SetCachedState(cache, cleanText, checked) ==
    [i \in DOMAIN cache |->
        IF cache[i].cleanText = cleanText
        THEN [cache[i] EXCEPT !.checked = checked] ELSE cache[i]]

\* The state of the parts a harness does not exercise.
WatcherIdle ==
    /\ pendingFile = NULL
    /\ debounceTimer = NoTimer
    /\ window = {}
    /\ syncCalls = <<>>
    /\ watchPc = "off"
    /\ lastNotify = NoNotify
    /\ scheduler = NoSchedule

DocsIdle ==
    /\ daily = <<>>
    /\ sources = [p \in SourcePaths |-> <<>>]
    /\ listItems = [p \in VaultPaths |-> FALSE]

AppendIdle ==
    /\ appends = <<>>
    /\ appPc = "off"
    /\ dailyNote = DailyPath

SystemIdle ==
    /\ taskStateCache = <<>>
    /\ lastRead = <<>>
    /\ rsProcessing = FALSE
    /\ rsHandlers = <<>>
    /\ syncedTasksCache = <<>>
    /\ s2dProcessing = FALSE
    /\ s2dHandlers = <<>>
    /\ syncRuns = <<>>
    /\ userLog = <<>>
    /\ writes = 0
    /\ sysPc = "off"

matchOthers == <<watcherVars, watchHistVars, docVars, appendVars, sysVars, cleanVars, lifeVars, failVars>>
watchOthers == <<matchVars, docVars, appendVars, sysVars, cleanVars, lifeVars, failVars>>
appendOthers == <<matchVars, watcherVars, watchHistVars, sysVars, cleanVars, lifeVars, failVars>>
systemOthers == <<matchVars, watchHistVars, appendVars, listItems, cleanVars, lifeVars, failVars>>

\* The services that subscribe to vault events: FileWatcherService,
\* ReverseSyncService, SourceToDailySyncService ('modify') and the plugin
\* itself ('create').
Services == {"watcher", "reverse", "forward", "create"}

FailIdle == failLog = <<>>

LifeIdle ==
    /\ subs = [svc \in Services |-> 0]
    /\ eventRefs = [svc \in Services |-> FALSE]
    /\ delayTimers = 0
    /\ initCalls = <<>>
    /\ lifePc = "off"
    /\ lifeLog = [starts |-> 0, creates |-> 0]

CleanerIdle ==
    /\ rawLine = <<>>
    /\ cleaned = NoCleaned
    /\ cleanPc = "off"

MatcherIdle ==
    /\ oldStates = <<>>
    /\ newStates = <<>>
    /\ matches = <<>>
    /\ changedTasks = <<>>
    /\ matchPc = "off"

----------------------------------------------------------------------------
(* The watcher on its own: change notifications for any document of the    *)
(* vault arrive in any order and at any time up to MaxTime, and the        *)
(* debounce timer expires when it is due.  At most MaxSyncs expiries are   *)
(* followed.                                                               *)

MaxSyncs == 2
MaxTime == 5

WatchInit ==
    /\ MatcherIdle
    /\ CleanerIdle
    /\ LifeIdle
    /\ FailIdle
    /\ SystemIdle
    /\ DocsIdle
    /\ AppendIdle
    /\ pendingFile = NULL
    /\ debounceTimer = NoTimer
    /\ window = {}
    /\ syncCalls = <<>>
    /\ watchPc = "on"
    /\ lastNotify = NoNotify
    /\ scheduler = NoSchedule

\* vault.on('modify') delivers a notification for path.
Notify(path) ==
    /\ watchPc = "on"
    /\ handleModify(path)
    /\ window' = IF shouldTriggerSync(path) THEN window \cup {path} ELSE window
    /\ lastNotify' = [path |-> path, pending |-> pendingFile, timer |-> debounceTimer,
                      timerSet |-> SetsTimer(path)]
    /\ scheduler' = Reschedule(scheduler, debounceTimer, path)
    /\ UNCHANGED <<syncCalls, watchPc, watchOthers>>

\* The debounce timer is due: its callback runs and calls onSync, which
\* returns or throws.
TimerFires ==
    /\ watchPc = "on"
    /\ Len(syncCalls) < MaxSyncs
    /\ scheduler.now = scheduler.due
    /\ TimerExpires
    /\ \E threw \in BOOLEAN :
          syncCalls' = Append(syncCalls,
                           [scope |-> SyncScope(debounceTimer), window |-> window,
                            threw |-> threw, raised |-> CallbackRaises(threw),
                            at |-> scheduler.now, firstAt |-> scheduler.firstAt,
                            lastAt |-> scheduler.lastAt])
    /\ window' = {}
    /\ lastNotify' = NoNotify
    /\ scheduler' = [scheduler EXCEPT !.live = @ - 1]
    /\ UNCHANGED <<watchPc, watchOthers>>

\* Time passes, up to the moment the pending timer is due.
Tick ==
    /\ watchPc = "on"
    /\ scheduler.now < MaxTime
    /\ ~(debounceTimer.armed /\ scheduler.now >= scheduler.due)
    /\ scheduler' = [scheduler EXCEPT !.now = @ + 1]
    /\ UNCHANGED <<watcherVars, window, syncCalls, watchPc, lastNotify, watchOthers>>

WatchNext ==
    \/ \E path \in VaultPaths : Notify(path)
    \/ TimerFires
    \/ Tick

SpecWatcher == WatchInit /\ [][WatchNext]_vars

----------------------------------------------------------------------------
(* Scan and append on their own: from any small vault, two sync cycles     *)
(* (syncPriorityTasks) run one after the other, each as a whole, and the   *)
(* metadata cache may catch up with the documents in between.  No document *)
(* is edited by anyone else.                                               *)

MaxDocLines == 2
MaxSourceLines == 3

\* The sequences over S of length at most n.
SeqsUpTo(S, n) == UNION {[1..k -> S] : k \in 0..n}

SourceLines ==
    { TaskLine("milk", "high", NULL, FALSE), TaskLine("milk", "high", NULL, TRUE),
      TaskLine("eggs", "highest", NULL, FALSE) }

DailyLines ==
    { TaskLine("milk", "high", "a", FALSE), TaskLine("milk", "high", "a", TRUE),
      OtherHeading }

SecondSourceContents == { <<>>, <<TaskLine("milk", "high", NULL, FALSE)>> }

AppendInit ==
    /\ MatcherIdle
    /\ CleanerIdle
    /\ LifeIdle
    /\ FailIdle
    /\ SystemIdle
    /\ WatcherIdle
    /\ \/ /\ dailyNote = DailyPath
          /\ \E body \in SeqsUpTo(DailyLines, MaxDocLines), withHeader \in BOOLEAN :
                daily = IF withHeader THEN <<HeaderLine>> \o body ELSE body
       \/ /\ dailyNote = NULL
          /\ daily = <<>>
    /\ \E a \in SeqsUpTo(SourceLines, MaxSourceLines), b \in SecondSourceContents :
          sources = [p \in SourcePaths |-> IF p = "a.md" THEN a ELSE b]
    /\ \E stale \in BOOLEAN :
          listItems = [p \in VaultPaths |->
                          IF p = "a.md" /\ stale THEN FALSE
                          ELSE HasCheckboxLine(Content(p))]
    /\ appends = <<>>
    /\ appPc = "first"

\* One whole syncPriorityTasks(file) with nothing else running.  Without a
\* daily note the call returns before it scans.
SyncCycle(scope) ==
    /\ appPc \in {"first", "second"}
    /\ IF dailyNote = NULL
       THEN /\ UNCHANGED daily
            /\ appends' = Append(appends,
                   [scope |-> scope, note |-> dailyNote, hint |-> listItems,
                    before |-> daily, tasks |-> <<>>, inserted |-> <<>>,
                    count |-> 0, write |-> FALSE, after |-> daily])
       ELSE LET tasks == limitedTasks(scope, filterByPriority(scanVault(scope)))
                r == appendNewTasks(daily, daily, tasks)
            IN  /\ daily' = IF r.write THEN r.newContent ELSE daily
                /\ appends' = Append(appends,
                       [scope |-> scope, note |-> dailyNote, hint |-> listItems,
                        before |-> daily, tasks |-> tasks, inserted |-> r.inserted,
                        count |-> r.count, write |-> r.write, after |-> daily'])
    /\ appPc' = IF appPc = "first" THEN "second" ELSE "done"
    /\ UNCHANGED <<sources, listItems, dailyNote, appendOthers>>

\* The metadata cache catches up with the documents.
RefreshCache ==
    /\ appPc \in {"first", "second"}
    /\ listItems # [p \in VaultPaths |-> HasCheckboxLine(Content(p))]
    /\ listItems' = [p \in VaultPaths |-> HasCheckboxLine(Content(p))]
    /\ UNCHANGED <<daily, sources, appendVars, appendOthers>>

AppendNext ==
    \/ SyncCycle(FullScan)
    \/ \E path \in SourcePaths : SyncCycle(path)
    \/ RefreshCache

SpecAppend == AppendInit /\ [][AppendNext]_vars

----------------------------------------------------------------------------
(* The matcher on its own: two snapshots of one document, taken from any   *)
(* two contents of at most MaxLines lines, are handed to matchTasks and    *)
(* findChangedTasks.  The new content may have up to MaxInserted further   *)
(* lines at its top (blank lines, or unchecked task lines as appendNewTasks *)
(* inserts them), so that tasks are shifted between the snapshots.          *)

MaxLines == 2
MaxInserted == 1

\* The task lines documents are built from: text, priority marker, link.
TaskKinds ==
    { <<"milk", "high", "a">>, <<"eggs", "high", "gone">>,
      <<"milk", "highest", NULL>> }

DocLines ==
    {OtherLine} \cup
    {TaskLine(k[1], k[2], k[3], c) : k \in TaskKinds, c \in BOOLEAN}

Contents == [1..MaxLines -> DocLines]

\* The lines that are put on top of the new content.
InsertedLines == {OtherLine, TaskLine("eggs", "high", "gone", FALSE)}

Insertions == UNION {[1..n -> InsertedLines] : n \in 0..MaxInserted}

MatchInit ==
    /\ WatcherIdle
    /\ CleanerIdle
    /\ LifeIdle
    /\ FailIdle
    /\ SystemIdle
    /\ DocsIdle
    /\ AppendIdle
    /\ \E old \in Contents, new \in Contents, top \in Insertions :
          /\ oldStates = parseAllTaskStates(old)
          /\ newStates = parseAllTaskStates(top \o new)
    /\ matches = <<>>
    /\ changedTasks = <<>>
    /\ matchPc = "input"

RunMatch ==
    /\ matchPc = "input"
    /\ matches' = matchTasks(oldStates, newStates)
    /\ changedTasks' = findChangedTasks(oldStates, newStates)
    /\ matchPc' = "matched"
    /\ UNCHANGED <<oldStates, newStates>>
    /\ UNCHANGED matchOthers

MatchNext == RunMatch

SpecMatch == MatchInit /\ [][MatchNext]_vars

----------------------------------------------------------------------------
(* The cleaner on its own: cleanTaskText is applied to any text of at most  *)
(* MaxTokens tokens and to its own result; when the text is a task that a   *)
(* scan returns, formatTask builds the line for the daily note from the     *)
(* task's cleanText and that line is cleaned again.                          *)

MaxTokens == 5

CleanInit ==
    /\ MatcherIdle
    /\ LifeIdle
    /\ FailIdle
    /\ WatcherIdle
    /\ DocsIdle
    /\ AppendIdle
    /\ SystemIdle
    /\ rawLine \in UNION {[1..n -> Tokens] : n \in 0..MaxTokens}
    /\ cleaned = NoCleaned
    /\ cleanPc = "input"

cleanOthers == <<matchVars, watcherVars, watchHistVars, docVars, appendVars, sysVars,
                 lifeVars, failVars>>

\* cleanTaskText(line) and cleanTaskText of its result.
CleanTwice ==
    /\ cleanPc = "input"
    /\ cleaned' = [cleaned EXCEPT
                      !.once = cleanTaskTextTokens(rawLine),
                      !.twice = cleanTaskTextTokens(cleanTaskTextTokens(rawLine))]
    /\ cleanPc' = "cleaned"
    /\ UNCHANGED <<rawLine, cleanOthers>>

\* The scanned task is formatted for the daily note, and the line is cleaned
\* as the dedup check of the next append cleans it.
FormatAndClean(link) ==
    /\ cleanPc = "cleaned"
    /\ IsScannedTask(rawLine)
    /\ cleaned' = [cleaned EXCEPT
                      !.formatted = formatTaskTokens(cleaned.once, link),
                      !.back = cleanTaskTextTokens(
                                   formatTaskTokens(cleaned.once, link))]
    /\ cleanPc' = "formatted"
    /\ UNCHANGED <<rawLine, cleanOthers>>

CleanNext ==
    \/ CleanTwice
    \/ \E link \in {"wiki", "mdlink"} : FormatAndClean(link)

SpecClean == CleanInit /\ [][CleanNext]_vars

----------------------------------------------------------------------------
(* The life cycle of the subscriptions and timers: the 'Enable sync'        *)
(* toggle calls startServices and stopServices in turn, today's daily note  *)
(* is created at any time, and every asynchronous call proceeds from one    *)
(* await to the next in its own step.  A subscription is counted from       *)
(* vault.on until a vault.offref of its reference.  At most MaxStarts       *)
(* calls of startServices and MaxCreates create events are followed.        *)

MaxStarts == 2
MaxCreates == 2

LifeInit ==
    /\ FailIdle
    /\ MatcherIdle
    /\ CleanerIdle
    /\ DocsIdle
    /\ AppendIdle
    /\ SystemIdle
    /\ pendingFile = NULL
    /\ debounceTimer = NoTimer
    /\ window = {}
    /\ syncCalls = <<>>
    /\ watchPc = "off"
    /\ lastNotify = NoNotify
    /\ scheduler = NoSchedule
    /\ subs = [svc \in Services |-> 0]
    /\ eventRefs = [svc \in Services |-> FALSE]
    /\ delayTimers = 0
    /\ initCalls = <<>>
    /\ lifePc = "stopped"
    /\ lifeLog = [starts |-> 0, creates |-> 0]

lifeOthers == <<matchVars, watchHistVars, docVars, appendVars, sysVars, cleanVars, failVars>>

\* this.eventRef = vault.on(...): one more subscription; the field holds the
\* new reference, whatever it held before.
Subscribe(counts, svc) == [counts EXCEPT ![svc] = @ + 1]

\* if (this.eventRef) { vault.offref(this.eventRef) }: the subscription the
\* field refers to ends.
Unsubscribe(counts, refs, svc) ==
    IF refs[svc] THEN [counts EXCEPT ![svc] = @ - 1] ELSE counts

\* startServices up to the first await of initializeReverseSync.
StartServices ==
    /\ lifePc = "stopped"
    /\ lifeLog.starts < MaxStarts
    /\ subs' = Subscribe(Subscribe(subs, "watcher"), "create")
    /\ eventRefs' = [eventRefs EXCEPT !["watcher"] = TRUE, !["create"] = TRUE]
    /\ initCalls' = Append(initCalls, "note")
    /\ lifePc' = "running"
    /\ lifeLog' = [lifeLog EXCEPT !.starts = @ + 1]
    /\ UNCHANGED <<delayTimers, watcherVars, lifeOthers>>

\* stopServices: FileWatcherService.stop, the two stopWatching, and the
\* offref of the create listener.
StopServices ==
    /\ lifePc = "running"
    /\ subs' = Unsubscribe(Unsubscribe(Unsubscribe(Unsubscribe(subs,
                  eventRefs, "watcher"), eventRefs, "reverse"),
                  eventRefs, "forward"), eventRefs, "create")
    /\ eventRefs' = [svc \in Services |-> FALSE]
    /\ debounceTimer' = NoTimer
    /\ pendingFile' = NULL
    /\ lifePc' = "stopped"
    /\ UNCHANGED <<delayTimers, initCalls, lifeLog, lifeOthers>>

\* vault 'create' for today's daily note: every active create listener
\* starts its 500 ms timer.
DailyNoteCreated ==
    /\ lifePc # "off"
    /\ subs["create"] > 0
    /\ lifeLog.creates < MaxCreates
    /\ delayTimers' = delayTimers + subs["create"]
    /\ lifeLog' = [lifeLog EXCEPT !.creates = @ + 1]
    /\ UNCHANGED <<subs, eventRefs, initCalls, lifePc, watcherVars, lifeOthers>>

\* A 500 ms timer fires: its callback awaits syncPriorityTasks().
DelayFires ==
    /\ lifePc # "off"
    /\ delayTimers > 0
    /\ delayTimers' = delayTimers - 1
    /\ initCalls' = Append(initCalls, "sync")
    /\ UNCHANGED <<subs, eventRefs, lifePc, lifeLog, watcherVars, lifeOthers>>

\* A suspended call resumes: after syncPriorityTasks comes
\* initializeReverseSync, which awaits getTodaysDailyNote (found or not),
\* then ReverseSyncService.startWatching (a read, then vault.on), then
\* SourceToDailySyncService.startWatching (a read, then vault.on).
InitStep(i) ==
    /\ lifePc # "off"
    /\ i \in DOMAIN initCalls
    /\ \/ /\ initCalls[i] = "sync"
          /\ initCalls' = [initCalls EXCEPT ![i] = "note"]
          /\ UNCHANGED <<subs, eventRefs>>
       \/ /\ initCalls[i] = "note"
          /\ \E found \in BOOLEAN :
                initCalls' = IF found THEN [initCalls EXCEPT ![i] = "rsRead"]
                             ELSE RemoveAt(initCalls, i)
          /\ UNCHANGED <<subs, eventRefs>>
       \/ /\ initCalls[i] = "rsRead"
          /\ subs' = Subscribe(subs, "reverse")
          /\ eventRefs' = [eventRefs EXCEPT !["reverse"] = TRUE]
          /\ initCalls' = [initCalls EXCEPT ![i] = "s2dRead"]
       \/ /\ initCalls[i] = "s2dRead"
          /\ subs' = Subscribe(subs, "forward")
          /\ eventRefs' = [eventRefs EXCEPT !["forward"] = TRUE]
          /\ initCalls' = RemoveAt(initCalls, i)
    /\ UNCHANGED <<delayTimers, lifePc, lifeLog, watcherVars, lifeOthers>>

\* vault 'modify' for a source while the watcher listens.
SourceModified ==
    /\ lifePc # "off"
    /\ subs["watcher"] > 0
    /\ handleModify("a.md")
    /\ UNCHANGED <<lifeVars, lifeOthers>>

\* The debounce timer fires.
DebounceFires ==
    /\ lifePc # "off"
    /\ TimerExpires
    /\ UNCHANGED <<lifeVars, lifeOthers>>

LifeNext ==
    \/ StartServices
    \/ StopServices
    \/ DailyNoteCreated
    \/ DelayFires
    \/ \E i \in 1..Len(initCalls) : InitStep(i)
    \/ SourceModified
    \/ DebounceFires

SpecLife == LifeInit /\ [][LifeNext]_vars

----------------------------------------------------------------------------
(* The plugin as a whole.  The services are started on a vault whose daily  *)
(* note and sources agree.  The user toggles checkboxes; every asynchronous *)
(* call proceeds from one await to the next in its own step, and the calls  *)
(* in flight interleave freely.  When a write takes effect (a user's edit   *)
(* or a vault.modify), the vault raises 'modify' and the three subscribers  *)
(* (the watcher, ReverseSyncService, SourceToDailySyncService) each run up  *)
(* to their first await; the writer then resumes.  The behaviours followed  *)
(* are those with at most MaxUserActions user actions and at most          *)
(* MaxWrites writes of the plugin: a call that asks for one more write      *)
(* stays suspended at its vault.modify.                                     *)

MaxUserActions == 2
MaxWrites == 3

\* vault.modify(file, content) and a user's edit: the content of the file.
WriteFile(path, content) ==
    IF path = DailyPath THEN daily' = content /\ UNCHANGED sources
    ELSE IF path \in SourcePaths
         THEN sources' = [sources EXCEPT ![path] = content] /\ UNCHANGED daily
         ELSE UNCHANGED <<daily, sources>>

\* Vaults in which the daily note and the source a.md agree: a.md holds the
\* tasks milk and eggs, the daily note links milk and, possibly, eggs, each
\* in the bracket state of its source line.
StartVault(milkDone, eggsDone, eggsPrio, eggsLinked) ==
    [daily |-> <<HeaderLine, TaskLine("milk", "high", "a", milkDone)>>
               \o (IF eggsLinked THEN <<TaskLine("eggs", eggsPrio, "a", eggsDone)>>
                   ELSE <<>>),
     a |-> <<TaskLine("milk", "high", NULL, milkDone),
             TaskLine("eggs", eggsPrio, NULL, eggsDone)>>]

OpenVaults == {StartVault(FALSE, FALSE, "highest", linked) : linked \in BOOLEAN}

AgreeingVaults ==
    {StartVault(m, e, p, linked) :
        m \in BOOLEAN, e \in BOOLEAN, p \in {"high", "highest"}, linked \in BOOLEAN}

\* startServices has completed on vault: the watcher is started and both
\* services have built their caches from the daily note.
Started(vault) ==
    /\ MatcherIdle
    /\ CleanerIdle
    /\ LifeIdle
    /\ FailIdle
    /\ AppendIdle
    /\ window = {}
    /\ syncCalls = <<>>
    /\ watchPc = "off"
    /\ lastNotify = NoNotify
    /\ scheduler = NoSchedule
    /\ pendingFile = NULL
    /\ debounceTimer = NoTimer
    /\ daily = vault.daily
    /\ sources = [p \in SourcePaths |-> IF p = "a.md" THEN vault.a ELSE <<>>]
    /\ listItems = [p \in VaultPaths |-> HasCheckboxLine(Content(p))]
    /\ taskStateCache = parseAllTaskStates(daily)
    /\ lastRead = parseAllTaskStates(daily)
    /\ rsProcessing = FALSE
    /\ rsHandlers = <<>>
    /\ syncedTasksCache = buildSyncedTasksCache(daily)
    /\ s2dProcessing = FALSE
    /\ s2dHandlers = <<>>
    /\ syncRuns = <<>>
    /\ userLog = <<>>
    /\ writes = 0
    /\ sysPc = "on"

SysInit == \E vault \in OpenVaults : Started(vault)

\* ----- the subscribers of 'modify' -----

\* handleDailyNoteModified past its isProcessing guard, waiting for its read.
NewRsHandler(origin) ==
    [pc |-> "read", cause |-> origin, newState |-> <<>>, changed |-> <<>>,
     k |-> 0, pending |-> <<>>]

\* ReverseSyncService's listener: the calls in flight after a 'modify' for
\* path, raised by origin.
ReverseListener(handlers, path, origin) ==
    IF path = DailyPath /\ ~rsProcessing
    THEN Append(handlers, NewRsHandler(origin))
    ELSE handlers

\* handleSourceFileModified past its guards, waiting for its read.
NewS2dHandler(path, origin) ==
    [pc |-> "read", cause |-> origin, path |-> path, changes |-> <<>>,
     k |-> 0, pending |-> <<>>]

\* SourceToDailySyncService's listener.
ForwardListener(handlers, path, origin) ==
    IF /\ path # DailyPath
       /\ ~s2dProcessing
       /\ tasksInFile(syncedTasksCache, path) # <<>>
    THEN Append(handlers, NewS2dHandler(path, origin))
    ELSE handlers

\* ----- the user -----

\* The user toggles the checkbox of line i of a document.
UserToggle(path, i) ==
    /\ sysPc = "on"
    /\ Len(userLog) < MaxUserActions
    /\ i \in DOMAIN Content(path)
    /\ isCheckbox(Content(path)[i])
    /\ WriteFile(path, [Content(path) EXCEPT
                           ![i] = SetCheckbox(@, ~Content(path)[i].checked)])
    /\ handleModify(path)
    /\ rsHandlers' = ReverseListener(rsHandlers, path, "user")
    /\ s2dHandlers' = ForwardListener(s2dHandlers, path, "user")
    /\ userLog' = Append(userLog, [path |-> path, text |-> Content(path)[i].text])
    /\ UNCHANGED <<taskStateCache, rsProcessing, lastRead, syncedTasksCache, s2dProcessing>>
    /\ UNCHANGED <<syncRuns, writes, sysPc, systemOthers>>

\* ----- syncPriorityTasks -----

\* The next file, from position k on, that scanVault reads: a full scan
\* skips excluded files and files without the list-item hint.
NextToScan(files, k, scope) ==
    LET rest == {j \in k..Len(files) :
                    /\ ~isExcluded(files[j])
                    /\ (scope = FullScan => hasListItems(files[j]))}
    IN  IF rest = {} THEN 0 ELSE CHOOSE j \in rest : \A l \in rest : j <= l

ScanList(scope) == IF scope = FullScan THEN MarkdownFiles ELSE <<scope>>

\* syncPriorityTasks(file) up to its first read.
NewSyncRun(scope) ==
    LET k == NextToScan(ScanList(scope), 1, scope)
    IN  [pc |-> IF k = 0 THEN "read" ELSE "scan", scope |-> scope, k |-> k,
         allTasks |-> <<>>, tasks |-> <<>>, content |-> <<>>, pending |-> <<>>]

\* What syncPriorityTasks hands to appendNewTasks.
TasksToAppend(scope, allTasks) ==
    limitedTasks(scope,
        filterByPriority(IF scope = FullScan THEN SortByPriority(allTasks)
                         ELSE allTasks))

\* A command that passes the watcher's pending file on, as the timer does.
ManualSyncPending ==
    /\ sysPc = "on"
    /\ Len(userLog) < MaxUserActions
    /\ syncRuns' = Append(syncRuns,
          NewSyncRun(IF pendingFile = NULL THEN FullScan ELSE pendingFile))
    /\ userLog' = Append(userLog, [path |-> FullScan, text |-> ""])
    /\ UNCHANGED <<docVars, watcherVars, reverseVars, forwardVars, writes, sysPc>>
    /\ UNCHANGED <<matchVars, watchHistVars, appendVars, cleanVars, lifeVars, failVars>>

\* The 'Sync priority tasks now' command: syncPriorityTasks().
ManualSync ==
    /\ sysPc = "on"
    /\ Len(userLog) < MaxUserActions
    /\ syncRuns' = Append(syncRuns, NewSyncRun(FullScan))
    /\ userLog' = Append(userLog, [path |-> FullScan, text |-> ""])
    /\ UNCHANGED <<docVars, watcherVars, reverseVars, forwardVars, writes, sysPc>>
    /\ UNCHANGED <<matchVars, watchHistVars, appendVars, cleanVars, lifeVars, failVars>>

\* The debounce timer fires: onSync(fileToSync ?? undefined).
TimerFire ==
    /\ sysPc = "on"
    /\ TimerExpires
    /\ syncRuns' = Append(syncRuns, NewSyncRun(SyncScope(debounceTimer)))
    /\ UNCHANGED <<docVars, reverseVars, forwardVars, userLog, writes, sysPc>>
    /\ UNCHANGED <<matchVars, watchHistVars, appendVars, cleanVars, lifeVars, failVars>>

\* parseFile's read of file k returns; the scan goes on to the next file or
\* hands its tasks over.
SyncScan(i) ==
    /\ i \in DOMAIN syncRuns
    /\ syncRuns[i].pc = "scan"
    /\ \E run \in {syncRuns[i]} :
       \E files \in {ScanList(run.scope)} :
       \E found \in {run.allTasks \o parseFile(files[run.k], Content(files[run.k]))} :
       \E n \in {NextToScan(files, run.k + 1, run.scope)} :
           syncRuns' = [syncRuns EXCEPT ![i] =
               IF n # 0 THEN [run EXCEPT !.allTasks = found, !.k = n]
               ELSE [run EXCEPT !.allTasks = found, !.pc = "read"]]
    /\ UNCHANGED <<docVars, watcherVars, reverseVars, forwardVars, userLog, writes, sysPc>>
    /\ UNCHANGED <<matchVars, watchHistVars, appendVars, cleanVars, lifeVars, failVars>>

\* appendNewTasks: its first read of the daily note returns.
AppendRead(i) ==
    /\ i \in DOMAIN syncRuns
    /\ syncRuns[i].pc = "read"
    /\ LET run == syncRuns[i]
       IN  syncRuns' = IF HeaderIndex(daily) = 0 THEN RemoveAt(syncRuns, i)
                       ELSE [syncRuns EXCEPT ![i] =
                                [run EXCEPT !.pc = "existing", !.content = daily,
                                            !.tasks = TasksToAppend(run.scope,
                                                                    run.allTasks)]]
    /\ UNCHANGED <<docVars, watcherVars, reverseVars, forwardVars, userLog, writes, sysPc>>
    /\ UNCHANGED <<matchVars, watchHistVars, appendVars, cleanVars, lifeVars, failVars>>

\* appendNewTasks: readExistingTasks returns; the new content is computed
\* and vault.modify is called, or the call returns 0.
AppendExisting(i) ==
    /\ i \in DOMAIN syncRuns
    /\ syncRuns[i].pc = "existing"
    /\ \E run \in {syncRuns[i]} :
       \E r \in {appendNewTasks(run.content, daily, run.tasks)} :
           syncRuns' = IF ~r.write THEN RemoveAt(syncRuns, i)
                       ELSE [syncRuns EXCEPT ![i] =
                                [run EXCEPT !.pc = "write", !.pending = r.newContent]]
    /\ UNCHANGED <<docVars, watcherVars, reverseVars, forwardVars, userLog, writes, sysPc>>
    /\ UNCHANGED <<matchVars, watchHistVars, appendVars, cleanVars, lifeVars, failVars>>

\* An appendNewTasks that writes its block into the first source instead.
AppendWriteToSource(i) ==
    /\ i \in DOMAIN syncRuns
    /\ syncRuns[i].pc = "write"
    /\ writes < MaxWrites
    /\ writes' = writes + 1
    /\ WriteFile("a.md", syncRuns[i].pending)
    /\ handleModify("a.md")
    /\ rsHandlers' = ReverseListener(rsHandlers, "a.md", "append")
    /\ s2dHandlers' = ForwardListener(s2dHandlers, "a.md", "append")
    /\ syncRuns' = RemoveAt(syncRuns, i)
    /\ UNCHANGED <<taskStateCache, rsProcessing, lastRead, syncedTasksCache, s2dProcessing>>
    /\ UNCHANGED <<userLog, sysPc, systemOthers>>

\* appendNewTasks: vault.modify takes effect and syncPriorityTasks returns.
AppendWrite(i) ==
    /\ i \in DOMAIN syncRuns
    /\ syncRuns[i].pc = "write"
    /\ writes < MaxWrites
    /\ writes' = writes + 1
    /\ WriteFile(DailyPath, syncRuns[i].pending)
    /\ handleModify(DailyPath)
    /\ rsHandlers' = ReverseListener(rsHandlers, DailyPath, "append")
    /\ s2dHandlers' = ForwardListener(s2dHandlers, DailyPath, "append")
    /\ syncRuns' = RemoveAt(syncRuns, i)
    /\ UNCHANGED <<taskStateCache, rsProcessing, lastRead, syncedTasksCache, s2dProcessing>>
    /\ UNCHANGED <<userLog, sysPc, systemOthers>>

\* ----- ReverseSyncService.handleDailyNoteModified -----

\* The loop over changedTasks from entry k on, up to the next read of a
\* source: what it leaves in isProcessing, the cache and the calls in flight.
\* At the end of the loop isProcessing is reset and the cache replaced.
RsContinue(i, h, k) ==
    LET n == NextToSync(h.changed, k)
    IN  IF n = 0
        THEN [processing |-> FALSE, cache |-> h.newState,
              handlers |-> RemoveAt(rsHandlers, i)]
        ELSE [processing |-> IF k = 1 THEN TRUE ELSE rsProcessing,
              cache |-> taskStateCache,
              handlers |-> [rsHandlers EXCEPT ![i] =
                               [h EXCEPT !.pc = "srcRead", !.k = n]]]

\* The read of the daily note returns: the snapshot is parsed and compared
\* with the cache.
RsRead(i) ==
    /\ i \in DOMAIN rsHandlers
    /\ rsHandlers[i].pc = "read"
    /\ \E newState \in {parseAllTaskStates(daily)} :
       \E changed \in {findChangedTasks(taskStateCache, newState)} :
       \E c \in {RsContinue(i, [rsHandlers[i] EXCEPT !.newState = newState,
                                                      !.changed = changed], 1)} :
           IF changed = <<>>
           THEN /\ taskStateCache' = newState
                /\ rsHandlers' = RemoveAt(rsHandlers, i)
                /\ UNCHANGED rsProcessing
           ELSE /\ taskStateCache' = c.cache
                /\ rsHandlers' = c.handlers
                /\ rsProcessing' = c.processing
    /\ lastRead' = parseAllTaskStates(daily)
    /\ UNCHANGED <<docVars, watcherVars, forwardVars, syncRuns, userLog, writes, sysPc>>
    /\ UNCHANGED <<matchVars, watchHistVars, appendVars, cleanVars, lifeVars, failVars>>

\* syncToggleToSource: the read of the source returns; vault.modify is
\* called, or the call returns and the loop goes on.
RsSourceRead(i) ==
    /\ i \in DOMAIN rsHandlers
    /\ rsHandlers[i].pc = "srcRead"
    /\ \E h \in {rsHandlers[i]} :
       \E change \in {h.changed[h.k]} :
       \E r \in {syncToggleToSource(Content(change.state.sourcePath),
                                     change.state, change.nowChecked)} :
       \E c \in {RsContinue(i, h, h.k + 1)} :
           IF r.write
           THEN /\ rsHandlers' = [rsHandlers EXCEPT ![i] =
                                     [h EXCEPT !.pc = "srcWrite", !.pending = r.newContent]]
                /\ UNCHANGED <<taskStateCache, rsProcessing>>
           ELSE /\ taskStateCache' = c.cache
                /\ rsHandlers' = c.handlers
                /\ rsProcessing' = c.processing
    /\ UNCHANGED <<lastRead, docVars, watcherVars, forwardVars, syncRuns, userLog, writes,
                   sysPc>>
    /\ UNCHANGED <<matchVars, watchHistVars, appendVars, cleanVars, lifeVars, failVars>>

\* syncToggleToSource: vault.modify takes effect, and the loop goes on.
RsSourceWrite(i) ==
    /\ i \in DOMAIN rsHandlers
    /\ rsHandlers[i].pc = "srcWrite"
    /\ writes < MaxWrites
    /\ writes' = writes + 1
    /\ \E h \in {rsHandlers[i]} :
       \E path \in {h.changed[h.k].state.sourcePath} :
       \E c \in {RsContinue(i, h, h.k + 1)} :
           /\ WriteFile(path, h.pending)
           /\ handleModify(path)
           /\ s2dHandlers' = ForwardListener(s2dHandlers, path, "reverse")
           /\ rsHandlers' = ReverseListener(c.handlers, path, "reverse")
           /\ taskStateCache' = c.cache
           /\ rsProcessing' = c.processing
    /\ UNCHANGED <<lastRead, syncedTasksCache, s2dProcessing>>
    /\ UNCHANGED <<syncRuns, userLog, sysPc, systemOthers>>

\* ----- SourceToDailySyncService.handleSourceFileModified -----

\* The loop over changes after updateDailyNoteTask returned for entry k: the
\* cache entry is updated, and the loop goes on or isProcessing is reset.
S2dContinue(i, h) ==
    [cache |-> SetCachedState(syncedTasksCache, h.changes[h.k].cleanText,
                              h.changes[h.k].nowChecked),
     processing |-> IF h.k = Len(h.changes) THEN FALSE ELSE s2dProcessing,
     handlers |-> IF h.k = Len(h.changes) THEN RemoveAt(s2dHandlers, i)
                  ELSE [s2dHandlers EXCEPT ![i] =
                           [h EXCEPT !.pc = "dailyRead", !.k = h.k + 1]]]

\* The read of the source returns: the changes are collected.
S2dRead(i) ==
    /\ i \in DOMAIN s2dHandlers
    /\ s2dHandlers[i].pc = "read"
    /\ \E h \in {s2dHandlers[i]} :
       \E changes \in {SourceChanges(Content(h.path),
                                      tasksInFile(syncedTasksCache, h.path))} :
           IF changes = <<>>
           THEN /\ s2dHandlers' = RemoveAt(s2dHandlers, i)
                /\ UNCHANGED s2dProcessing
           ELSE /\ s2dProcessing' = TRUE
                /\ s2dHandlers' = [s2dHandlers EXCEPT ![i] =
                       [h EXCEPT !.pc = "dailyRead", !.changes = changes, !.k = 1]]
    /\ UNCHANGED <<docVars, watcherVars, reverseVars, syncedTasksCache,
                   syncRuns, userLog, writes, sysPc>>
    /\ UNCHANGED <<matchVars, watchHistVars, appendVars, cleanVars, lifeVars, failVars>>

\* updateDailyNoteTask: the read of the daily note returns; vault.modify is
\* called, or the call returns and the loop goes on.
S2dDailyRead(i) ==
    /\ i \in DOMAIN s2dHandlers
    /\ s2dHandlers[i].pc = "dailyRead"
    /\ \E h \in {s2dHandlers[i]} :
       \E r \in {updateDailyNoteTask(daily, h.changes[h.k].cleanText,
                                      h.changes[h.k].nowChecked)} :
       \E c \in {S2dContinue(i, h)} :
           IF r.write
           THEN /\ s2dHandlers' = [s2dHandlers EXCEPT ![i] =
                       [h EXCEPT !.pc = "dailyWrite", !.pending = r.newContent]]
                /\ UNCHANGED <<syncedTasksCache, s2dProcessing>>
           ELSE /\ syncedTasksCache' = c.cache
                /\ s2dHandlers' = c.handlers
                /\ s2dProcessing' = c.processing
    /\ UNCHANGED <<docVars, watcherVars, reverseVars, syncRuns, userLog, writes, sysPc>>
    /\ UNCHANGED <<matchVars, watchHistVars, appendVars, cleanVars, lifeVars, failVars>>

\* updateDailyNoteTask: vault.modify takes effect, and the loop goes on.
S2dDailyWrite(i) ==
    /\ i \in DOMAIN s2dHandlers
    /\ s2dHandlers[i].pc = "dailyWrite"
    /\ writes < MaxWrites
    /\ writes' = writes + 1
    /\ \E h \in {s2dHandlers[i]} :
       \E c \in {S2dContinue(i, h)} :
           /\ WriteFile(DailyPath, h.pending)
           /\ handleModify(DailyPath)
           /\ rsHandlers' = ReverseListener(rsHandlers, DailyPath, "forward")
           /\ s2dHandlers' = ForwardListener(c.handlers, DailyPath, "forward")
           /\ syncedTasksCache' = c.cache
           /\ s2dProcessing' = c.processing
    /\ UNCHANGED <<taskStateCache, rsProcessing, lastRead>>
    /\ UNCHANGED <<syncRuns, userLog, sysPc, systemOthers>>

CycleStep ==
    \E i \in 1..Len(syncRuns) : SyncScan(i) \/ AppendRead(i) \/ AppendExisting(i)
                                \/ AppendWrite(i)

SyncStep == TimerFire \/ CycleStep

ReverseStep ==
    \E i \in 1..Len(rsHandlers) : RsRead(i) \/ RsSourceRead(i) \/ RsSourceWrite(i)

ForwardStep ==
    \E i \in 1..Len(s2dHandlers) : S2dRead(i) \/ S2dDailyRead(i) \/ S2dDailyWrite(i)

PluginStep == SyncStep \/ ReverseStep \/ ForwardStep

UserToggles ==
    \E path \in SourcePaths \cup {DailyPath} :
        \E i \in 1..Len(Content(path)) : UserToggle(path, i)

UserStep == UserToggles \/ ManualSync

Next == UserStep \/ PluginStep

Spec == SysInit /\ [][Next]_vars

\* Nothing of the plugin is in flight: no call is suspended, no isProcessing
\* flag is set and no timer is armed.
Quiescent ==
    /\ rsHandlers = <<>>
    /\ s2dHandlers = <<>>
    /\ syncRuns = <<>>
    /\ ~rsProcessing
    /\ ~s2dProcessing
    /\ ~debounceTimer.armed

\* No call of the plugin is suspended.
NoCallInFlight == rsHandlers = <<>> /\ s2dHandlers = <<>> /\ syncRuns = <<>>

\* The same plugin, started on any agreeing vault, when the user toggles one
\* checkbox and then leaves the vault alone.  Every suspended call is resumed
\* in the end and an armed timer fires.  The debounce delay (debounceMs, 500
\* ms at least) outlasts the reads and writes that are pending when the timer
\* is armed: the timer fires when no call is suspended.
FairInit == \E vault \in AgreeingVaults : Started(vault)

FirstToggle == userLog = <<>> /\ UserToggles

DebouncedFire == NoCallInFlight /\ TimerFire

FairStep == DebouncedFire \/ CycleStep \/ ReverseStep \/ ForwardStep

FairNext == FirstToggle \/ FairStep

FairSpec == FairInit /\ [][FairNext]_vars /\ WF_vars(FairStep)

----------------------------------------------------------------------------
(* Completion propagation on vaults with tasks that cannot be propagated   *)
(* and on vaults with repeated tasks: the two services on a started vault  *)
(* and the user toggling checkboxes.                                       *)

\* A vault whose daily note holds a task without link, a task whose link
\* denotes no document, and a task linked to a.md, which does not hold it.
OrphanVaults ==
    {[daily |-> <<HeaderLine, TaskLine("salt", "high", NULL, FALSE),
                  TaskLine("eggs", "high", "gone", eggsDone),
                  TaskLine("milk", "high", "a", FALSE)>>,
      a |-> <<TaskLine("eggs", "high", NULL, FALSE)>>] : eggsDone \in BOOLEAN}

\* Vaults in which the task milk stands twice in the daily note and twice in
\* its source a.md.
DuplicateVaults ==
    {[daily |-> <<HeaderLine, TaskLine("milk", "high", "a", FALSE),
                  TaskLine("milk", "high", "a", dailyDone)>>,
      a |-> <<TaskLine("eggs", "high", NULL, FALSE), TaskLine("milk", "high", NULL, FALSE),
              TaskLine("milk", "high", NULL, sourceDone)>>] :
        dailyDone \in BOOLEAN, sourceDone \in BOOLEAN}

OrphanInit == \E vault \in OrphanVaults : Started(vault)

DuplicateInit == \E vault \in DuplicateVaults : Started(vault)

PropagateNext == UserToggles \/ ReverseStep \/ ForwardStep

SpecOrphan == OrphanInit /\ [][PropagateNext]_vars

SpecDuplicate == DuplicateInit /\ [][PropagateNext]_vars

----------------------------------------------------------------------------
(* Completion propagation when the vault fails: the two services on a      *)
(* started vault, the user toggling checkboxes, and any pending            *)
(* vault.read or vault.modify of a handler throwing instead of returning.  *)
(* At most MaxFailures calls fail.  A failing vault.modify leaves the      *)
(* document as it was.                                                     *)

MaxFailures == 2

\* Whether an error thrown by a vault call of the given service leaves its
\* handler.  handleDailyNoteModified and syncToggleToSource have no catch,
\* and neither has the listener that awaits them; handleSourceFileModified
\* and updateDailyNoteTask catch and log.
HandlerRaises(service) == service = "reverse"

\* A handleDailyNoteModified without try / finally around its loop.
FlagKeptAfterError(processing) == processing

\* isProcessing after an error left the loop of handleDailyNoteModified:
\* finally { this.isProcessing = false }.
FlagAfterError(processing) == FALSE

\* A handleDailyNoteModified that stores the snapshot it read in a finally
\* block.
CacheReplacedAfterError(cache, newState) == newState

\* taskStateCache after an error left handleDailyNoteModified: the
\* assignment after the loop is not reached.
CacheAfterError(cache, newState) == cache

\* A vault call of the i-th handleDailyNoteModified in flight throws: the
\* read of the daily note, before the loop, or the read or the modify of
\* syncToggleToSource, inside it.  The call ends there; the cache is not
\* replaced.
RsFails(i) ==
    /\ i \in DOMAIN rsHandlers
    /\ Len(failLog) < MaxFailures
    /\ rsHandlers' = RemoveAt(rsHandlers, i)
    /\ rsProcessing' = IF rsHandlers[i].pc = "read" THEN rsProcessing
                       ELSE FlagAfterError(rsProcessing)
    /\ taskStateCache' = IF rsHandlers[i].pc = "read" THEN taskStateCache
                         ELSE CacheAfterError(taskStateCache, rsHandlers[i].newState)
    /\ failLog' = Append(failLog,
                     [service |-> "reverse", at |-> rsHandlers[i].pc,
                      raised |-> HandlerRaises("reverse"),
                      cacheKept |-> taskStateCache' = taskStateCache,
                      changed |-> rsHandlers[i].changed])
    /\ UNCHANGED <<lastRead, docVars, watcherVars, forwardVars, syncRuns,
                   userLog, writes, sysPc>>
    /\ UNCHANGED <<matchVars, watchHistVars, appendVars, cleanVars, lifeVars>>

\* A vault call of the i-th handleSourceFileModified in flight throws.  The
\* read of the source is caught by the handler, which returns.  The read or
\* the modify of updateDailyNoteTask is caught there; the call returns and
\* the loop goes on with the update of the cache entry.
S2dFails(i) ==
    /\ i \in DOMAIN s2dHandlers
    /\ Len(failLog) < MaxFailures
    /\ \E h \in {s2dHandlers[i]} :
          IF h.pc = "read"
          THEN /\ s2dHandlers' = RemoveAt(s2dHandlers, i)
               /\ UNCHANGED <<syncedTasksCache, s2dProcessing>>
          ELSE \E c \in {S2dContinue(i, h)} :
                  /\ syncedTasksCache' = c.cache
                  /\ s2dHandlers' = c.handlers
                  /\ s2dProcessing' = c.processing
    /\ failLog' = Append(failLog,
                     [service |-> "forward", at |-> s2dHandlers[i].pc,
                      raised |-> HandlerRaises("forward"),
                      cacheKept |-> syncedTasksCache' = syncedTasksCache,
                      changed |-> <<>>])
    /\ UNCHANGED <<docVars, watcherVars, reverseVars, syncRuns, userLog, writes, sysPc>>
    /\ UNCHANGED <<matchVars, watchHistVars, appendVars, cleanVars, lifeVars>>

FailStep ==
    \/ \E i \in 1..Len(rsHandlers) : RsFails(i)
    \/ \E i \in 1..Len(s2dHandlers) : S2dFails(i)

FailNext == UserToggles \/ ReverseStep \/ ForwardStep \/ FailStep

SpecFail == SysInit /\ [][FailNext]_vars

----------------------------------------------------------------------------
(* Claims about the matcher (checked under SpecMatch) *)

\* The old / new tasks of the two snapshots.
OldTasks == {oldStates[n] : n \in DOMAIN oldStates}
NewTasks == {newStates[n] : n \in DOMAIN newStates}
MatchSet == Range(matches)

\* C5 (as claimed): a new task whose canonical text is carried by exactly
\* one old task (and by no other new task) is paired with that old task,
\* whatever the two line numbers are and whatever lines were inserted.
C5_TextMatchAlwaysPairs ==
    matchPc = "matched" =>
        \A n \in NewTasks : \A o \in OldTasks :
            ( /\ o.cleanText = n.cleanText
              /\ \A o2 \in OldTasks : o2.cleanText = n.cleanText => o2 = o
              /\ \A n2 \in NewTasks : n2.cleanText = n.cleanText => n2 = n )
            => \E m \in MatchSet : m.newState = n /\ m.oldState = o

\* C6 (as claimed): no match pairs an old task with a new task of a
\* different canonical text.
C6_NeverPairsDifferentText ==
    matchPc = "matched" =>
        \A m \in MatchSet :
            m.oldState # NoState => m.oldState.cleanText = m.newState.cleanText

\* C6 (amended): a match pairs tasks of different canonical text only when
\* both the priority and the line number of the two are equal.
C6_DifferentTextNeedsPriorityAndLine ==
    matchPc = "matched" =>
        \A m \in MatchSet :
            (m.oldState # NoState /\ m.oldState.cleanText # m.newState.cleanText)
            => /\ m.oldState.priority = m.newState.priority
               /\ m.oldState.lineNumber = m.newState.lineNumber

\* C6 witness: matchTasks has paired two tasks of different text that share
\* priority and line number.
C6_Witness ==
    /\ matchPc = "matched"
    /\ \E m \in MatchSet :
          /\ m.oldState # NoState
          /\ m.oldState.cleanText # m.newState.cleanText
          /\ m.oldState.priority = m.newState.priority
          /\ m.oldState.lineNumber = m.newState.lineNumber

\* The new snapshot is the old one with the bracket of line n toggled and
\* nothing else changed.
OnlyToggled(n) ==
    /\ DOMAIN oldStates = DOMAIN newStates
    /\ n \in DOMAIN newStates
    /\ newStates[n].checked # oldStates[n].checked
    /\ newStates[n].originalLine = [oldStates[n].originalLine EXCEPT !.checked = ~@]
    /\ \A k \in DOMAIN newStates \ {n} : newStates[k] = oldStates[k]

\* The path a wikilink target denotes: the resolved file, else the literal
\* target with the markdown extension.
DenotedPath(link) ==
    CASE link = "a" -> "a.md"
      [] link = "gone" -> "gone.md"
      [] OTHER -> NULL

\* C7: when the new snapshot differs from the cached one only in the toggled
\* bracket of one task line, findChangedTasks returns exactly one entry, for
\* that line, with nowChecked the line's new state and sourcePath the path
\* its cross-document reference denotes.
C7_SingleToggleReportedOnce ==
    matchPc = "matched" =>
        \A n \in DOMAIN newStates :
            OnlyToggled(n) =>
                /\ Len(changedTasks) = 1
                /\ changedTasks[1].state.lineNumber = n
                /\ changedTasks[1].state.originalLine = newStates[n].originalLine
                /\ changedTasks[1].nowChecked = newStates[n].originalLine.checked
                /\ changedTasks[1].state.sourcePath
                      = DenotedPath(newStates[n].originalLine.link)

\* C7 witness: a single toggle of a linked line, with another task line in
\* the document, has been diffed.
C7_Witness ==
    /\ matchPc = "matched"
    /\ Cardinality(DOMAIN newStates) > 1
    /\ \E n \in DOMAIN newStates :
          /\ OnlyToggled(n)
          /\ newStates[n].originalLine.link = "a"
          /\ Len(changedTasks) = 1

----------------------------------------------------------------------------
(* Claims about the file watcher (checked under SpecWatcher) *)

\* C10 (as claimed): once accepted notifications for two different documents
\* have arrived within one debounce window, the scan run at expiry is a
\* full-vault scan whatever further notifications arrive before expiry.
C10_TwoDocumentsGiveFullScan ==
    \A i \in DOMAIN syncCalls :
        Cardinality(syncCalls[i].window) >= 2 => syncCalls[i].scope = FullScan

----------------------------------------------------------------------------
(* Claims about scan and append (checked under SpecAppend) *)

\* The canonical texts of the checkbox lines of the designated section.
SectionTexts(content) == {t.cleanText : t \in Range(readExistingTasks(content))}

\* The number of checkbox lines of the section with a given canonical text.
SectionCount(content, text) ==
    Cardinality({t \in Range(readExistingTasks(content)) : t.cleanText = text})

\* C3 (as claimed): appendNewTasks never inserts a candidate whose canonical
\* text is the canonical text of a checkbox line already in the section,
\* completed or not.
C3_NeverInsertsPresentText ==
    \A i \in DOMAIN appends :
        \A k \in DOMAIN appends[i].inserted :
            appends[i].inserted[k].cleanText \notin SectionTexts(appends[i].before)

\* C4 (as claimed): of two full scan + append cycles in sequence, with no
\* document changed and the list-item hint the same in both, the second
\* inserts nothing (count 0, daily note unchanged), and every task the first
\* one was given has exactly one line in the section.
C4_SecondCycleInsertsNothing ==
    ( /\ appPc = "done"
      /\ appends[1].scope = FullScan /\ appends[2].scope = FullScan
      /\ appends[1].hint = appends[2].hint
      /\ HeaderIndex(appends[1].before) # 0
      /\ HeaderIndex(appends[1].before) < Len(appends[1].before) )
    => /\ appends[2].count = 0
       /\ ~appends[2].write
       /\ appends[2].after = appends[2].before
       /\ \A k \in DOMAIN appends[1].tasks :
             SectionCount(daily, appends[1].tasks[k].cleanText) = 1

----------------------------------------------------------------------------
(* Claims about the plugin as a whole (checked under Spec and FairSpec) *)

\* The linked lines of the daily note whose source holds a checkbox line with
\* the same clean text carry the completion state of that source line.
LinkedAgree ==
    \A i \in DOMAIN daily :
        ( /\ isCheckbox(daily[i])
          /\ extractSourcePath(daily[i]) \in SourcePaths
          /\ FirstTaskIndex(sources[extractSourcePath(daily[i])],
                            cleanTaskText(daily[i])) # 0 )
        => sources[extractSourcePath(daily[i])]
               [FirstTaskIndex(sources[extractSourcePath(daily[i])],
                               cleanTaskText(daily[i]))].checked
           = daily[i].checked

\* What the user did, by document.
UserTouchedOnly(paths) ==
    userLog # <<>> /\ \A k \in DOMAIN userLog : userLog[k].path \in paths

\* C1 (as claimed): a write of the plugin starts no call of the handler that
\* listens to the written document: no handleDailyNoteModified is in flight
\* for a write of appendNewTasks or updateDailyNoteTask, and no
\* handleSourceFileModified for a write of syncToggleToSource.
C1_OwnWritesStartNoCycle ==
    /\ \A i \in DOMAIN rsHandlers : rsHandlers[i].cause \notin {"append", "forward"}
    /\ \A i \in DOMAIN s2dHandlers : s2dHandlers[i].cause # "reverse"

C8_DailyFlipsReachSource ==
    (Quiescent /\ UserTouchedOnly({DailyPath})) => LinkedAgree

\* C9 (as claimed): when the user has only flipped checkboxes in a source
\* and the plugin has come to rest, every linked line of the daily note,
\* the lines appendNewTasks inserted included, carries the state of its
\* source line.
C9_SourceFlipsReachDaily ==
    (Quiescent /\ UserTouchedOnly(SourcePaths)) => LinkedAgree

\* C11 (as claimed): at most one call of syncPriorityTasks is suspended at an
\* await at any time, whoever started it (the debounce timer or the command).
C11_OneCycleAtATime == Len(syncRuns) <= 1

\* The calls that have read a document and are waiting for their vault.modify
\* of it to take effect: appendNewTasks and updateDailyNoteTask on the daily
\* note, syncToggleToSource on a source.
AppendersMidWrite == {i \in DOMAIN syncRuns : syncRuns[i].pc = "write"}

UpdatersMidWrite == {i \in DOMAIN s2dHandlers : s2dHandlers[i].pc = "dailyWrite"}

SourceWriters(path) ==
    {i \in DOMAIN rsHandlers :
        /\ rsHandlers[i].pc = "srcWrite"
        /\ rsHandlers[i].changed[rsHandlers[i].k].state.sourcePath = path}

\* C12 (as claimed): at most one read-modify-write of the plugin is in
\* progress for a document: appendNewTasks and updateDailyNoteTask are never
\* both between their read and their write of the daily note, and no two
\* calls of handleDailyNoteModified are writing the same source.
C12_OneWriterPerDocument ==
    /\ Cardinality(AppendersMidWrite) + Cardinality(UpdatersMidWrite) <= 1
    /\ \A path \in SourcePaths : Cardinality(SourceWriters(path)) <= 1


\* The user has just run the command 'Sync priority tasks now'.
CommandIssued ==
    /\ Len(userLog') = Len(userLog) + 1
    /\ userLog'[Len(userLog')].path = FullScan

\* C13: the command starts a syncPriorityTasks whose scan is the full-vault
\* scan (over all markdown files), whatever file is pending in the watcher,
\* and leaves the watcher's pending file and timer as they are.
C13_CommandRunsFullScan ==
    [][CommandIssued =>
          /\ Len(syncRuns') = Len(syncRuns) + 1
          /\ syncRuns'[Len(syncRuns')].scope = FullScan
          /\ ScanList(syncRuns'[Len(syncRuns')].scope) = MarkdownFiles
          /\ UNCHANGED watcherVars]_vars

\* The command was run while a.md was the watcher's pending file, and its
\* cycle is in flight.
C13_Witness ==
    /\ Len(userLog) = 2
    /\ userLog[1].path = "a.md"
    /\ userLog[2].path = FullScan
    /\ pendingFile = "a.md"
    /\ debounceTimer.armed
    /\ \E i \in DOMAIN syncRuns : syncRuns[i].scope = FullScan

\* C20: no step of a sync cycle (its start, its scan, its reads of the daily
\* note, its write) changes the content of a source document.
C20_CycleLeavesSourcesAlone ==
    [][syncRuns' # syncRuns => sources' = sources]_vars

\* A sync cycle has written the daily note (its 'modify' started a handler)
\* and has returned.
C20_Witness ==
    /\ \E i \in DOMAIN rsHandlers : rsHandlers[i].cause = "append"
    /\ syncRuns = <<>>
    /\ writes > 0

----------------------------------------------------------------------------
(* Further claims about scan and append (checked under SpecAppend) *)

\* The positions of the lines of a source that a scan must report: the
\* uncompleted checkbox lines that carry one of the two included markers.
EligibleLines(content) ==
    {j \in DOMAIN content :
        /\ content[j].kind = "task"
        /\ ~content[j].checked
        /\ content[j].prio \in {"high", "highest"}}

\* C14: in an incremental cycle every eligible task of the scanned document
\* is handed to appendNewTasks, however many there are; in a full-scan cycle
\* at most taskLimit tasks are.
C14_LimitOnlyOnFullScans ==
    \A i \in DOMAIN appends :
        appends[i].note # NULL =>
            IF appends[i].scope = FullScan
            THEN Len(appends[i].tasks) <= taskLimit
            ELSE /\ Len(appends[i].tasks)
                      = Cardinality(EligibleLines(sources[appends[i].scope]))
                 /\ \A j \in EligibleLines(sources[appends[i].scope]) :
                       \E k \in DOMAIN appends[i].tasks :
                          /\ appends[i].tasks[k].lineNumber = j - 1
                          /\ appends[i].tasks[k].originalLine
                                = sources[appends[i].scope][j]

\* An incremental cycle has handed more tasks than the limit to
\* appendNewTasks, and a full scan of the same vault was cut.
C14_Witness ==
    /\ appPc = "done"
    /\ appends[1].scope = "a.md"
    /\ Len(appends[1].tasks) > taskLimit
    /\ appends[2].scope = FullScan
    /\ Len(appends[2].tasks) = taskLimit

\* C16: a cycle that finds no daily note, or a daily note without the
\* section heading, writes nothing, leaves the daily note without the
\* heading and reports no inserted task.
C16_NoSectionNoWrite ==
    \A i \in DOMAIN appends :
        (appends[i].note = NULL
         \/ \A j \in DOMAIN appends[i].before : appends[i].before[j] # HeaderLine)
        => /\ ~appends[i].write
           /\ appends[i].count = 0
           /\ appends[i].inserted = <<>>
           /\ appends[i].after = appends[i].before
           /\ \A j \in DOMAIN appends[i].after : appends[i].after[j] # HeaderLine

\* A cycle with tasks to append has run on a daily note that has lines but
\* no section heading.
C16_Witness ==
    /\ appPc = "done"
    /\ appends[1].note # NULL
    /\ appends[1].before # <<>>
    /\ appends[1].tasks # <<>>
    /\ \A j \in DOMAIN appends[1].before : appends[1].before[j] # HeaderLine

----------------------------------------------------------------------------
(* A further claim about the file watcher (checked under SpecWatcher) *)

\* C19: a notification for the daily note, for an excluded document or for
\* a document that is not markdown leaves pendingFile and the debounce timer
\* as they were, and the timer is neither set nor set again.
C19_IgnoredNotificationsChangeNothing ==
    lastNotify.path \in {DailyPath, ExcludedPath, ImagePath} =>
        /\ pendingFile = lastNotify.pending
        /\ debounceTimer = lastNotify.timer
        /\ ~lastNotify.timerSet

\* A notification for the daily note has arrived while the timer was armed
\* for a.md.
C19_Witness ==
    /\ lastNotify.path = DailyPath
    /\ lastNotify.timer.armed
    /\ pendingFile = "a.md"

----------------------------------------------------------------------------
(* Claims about cleanTaskText and formatTask (checked under SpecClean) *)

\* C17 (as claimed): cleanTaskText applied to its own result returns that
\* result, for every text over the tokens.
C17_CleanIsIdempotent ==
    cleanPc # "input" => cleaned.twice = cleaned.once

\* C18 (as claimed): the line formatTask builds for a scanned task cleans
\* back to the cleanText the task carries.
C18_FormattedLineCleansBack ==
    cleanPc = "formatted" => cleaned.back = cleaned.once

----------------------------------------------------------------------------
(* A claim about the life cycle (checked under SpecLife) *)

\* C15 (as claimed): once stopServices has returned, no subscription of the
\* plugin is active and none of its timers is pending.
C15_StopReleasesEverything ==
    (lifePc = "stopped" /\ lifeLog.starts > 0) =>
        /\ \A svc \in Services : subs[svc] = 0
        /\ delayTimers = 0
        /\ ~debounceTimer.armed

----------------------------------------------------------------------------
(* Further claims about the matcher (checked under SpecMatch) *)

\* The score the documentation gives: 3 for equal canonical text, 1 for equal
\* priority tier, 1 for equal line index.
ClaimedScore(o, n) ==
    (IF o.cleanText = n.cleanText THEN 3 ELSE 0)
  + (IF o.priority = n.priority THEN 1 ELSE 0)
  + (IF o.lineNumber = n.lineNumber THEN 1 ELSE 0)

\* The old line numbers consumed by the matches before the k-th.
ConsumedBefore(k) ==
    {matches[j].oldState.lineNumber :
        j \in {i \in 1..(k - 1) : matches[i].oldState # NoState}}

\* The old tasks the k-th match may be paired with: not yet consumed, and
\* with a score of at least 2.
Candidates(k) ==
    {o \in OldTasks : /\ o.lineNumber \notin ConsumedBefore(k)
                      /\ ClaimedScore(o, matches[k].newState) >= 2}

\* The candidates of the k-th match with the highest score.
BestCandidates(k) ==
    {o \in Candidates(k) :
        \A c \in Candidates(k) :
            ClaimedScore(o, matches[k].newState) >= ClaimedScore(c, matches[k].newState)}

\* C22: each new task is paired with a not yet consumed old task of the
\* highest score among those that score at least 2, and is reported with no
\* old state when no old task scores 2.
C22_HighestScoreAtLeastTwo ==
    matchPc = "matched" =>
        \A k \in DOMAIN matches :
            IF Candidates(k) = {} THEN matches[k].oldState = NoState
            ELSE matches[k].oldState \in BestCandidates(k)

\* All three cases have happened in one run: a pair with equal text only
\* (score 3), a pair with equal priority and index only (score 2), and a new
\* task left alone beside an unconsumed old task that shares its priority.
C22_Witness ==
    /\ matchPc = "matched"
    /\ \E k \in DOMAIN matches :
          /\ matches[k].oldState # NoState
          /\ ClaimedScore(matches[k].oldState, matches[k].newState) = 3
    /\ \E k \in DOMAIN matches :
          /\ matches[k].oldState # NoState
          /\ ClaimedScore(matches[k].oldState, matches[k].newState) = 2
          /\ matches[k].oldState.cleanText # matches[k].newState.cleanText
    /\ \E k \in DOMAIN matches :
          /\ matches[k].oldState = NoState
          /\ \E o \in OldTasks :
                /\ o.lineNumber \notin ConsumedBefore(k)
                /\ ClaimedScore(o, matches[k].newState) = 1

Distance(o, n) ==
    IF o.lineNumber >= n.lineNumber THEN o.lineNumber - n.lineNumber
    ELSE n.lineNumber - o.lineNumber

\* C23 (as claimed): among the candidates of the highest score the one
\* closest to the new task's line is picked, and among equally close ones the
\* one with the lowest line index.
C23_TieBrokenByDistance ==
    matchPc = "matched" =>
        \A k \in DOMAIN matches :
            matches[k].oldState # NoState =>
                \A c \in BestCandidates(k) :
                    \/ Distance(matches[k].oldState, matches[k].newState)
                          < Distance(c, matches[k].newState)
                    \/ /\ Distance(matches[k].oldState, matches[k].newState)
                             = Distance(c, matches[k].newState)
                       /\ matches[k].oldState.lineNumber <= c.lineNumber

\* C24: every new task is in exactly one match, in the order of the new
\* snapshot, and every old task is the old state of at most one match.
C24_MatchesArePartialBijection ==
    matchPc = "matched" =>
        /\ Len(matches) = Cardinality(DOMAIN newStates)
        /\ \A n \in DOMAIN newStates :
              Cardinality({k \in DOMAIN matches : matches[k].newState = newStates[n]}) = 1
        /\ \A o \in DOMAIN oldStates :
              Cardinality({k \in DOMAIN matches : matches[k].oldState = oldStates[o]}) <= 1

\* Two new tasks had the same best old candidate, and one of them got it.
C24_Witness ==
    /\ matchPc = "matched"
    /\ \E k \in DOMAIN matches, j \in DOMAIN matches :
          /\ j < k
          /\ matches[j].oldState # NoState
          /\ matches[k].oldState # matches[j].oldState
          /\ ClaimedScore(matches[j].oldState, matches[k].newState) >= 2
          /\ \A o \in OldTasks :
                ClaimedScore(o, matches[k].newState)
                    <= ClaimedScore(matches[j].oldState, matches[k].newState)

\* The new snapshot is the old one with one unchecked task line put on top:
\* every old task is one line further down, unchanged.
OnlyInserted ==
    /\ 0 \in DOMAIN newStates
    /\ ~newStates[0].checked
    /\ DOMAIN newStates = {0} \cup {n + 1 : n \in DOMAIN oldStates}
    /\ \A n \in DOMAIN oldStates :
          newStates[n + 1] = [oldStates[n] EXCEPT !.lineNumber = n + 1]

\* C25 (as claimed): when task lines were only inserted and the existing
\* ones shifted, findChangedTasks reports nothing.
C25_InsertionReportsNoFlip ==
    (matchPc = "matched" /\ OnlyInserted) => changedTasks = <<>>

----------------------------------------------------------------------------
(* The frame of an append (checked under SpecAppend) *)

\* C21 (as claimed): an append that inserts k > 0 tasks returns k and writes
\* the previous content with k task lines directly after the heading line;
\* the heading line and every other line stay as they were, in their order.
C21_InsertsDirectlyAfterHeading ==
    \A i \in DOMAIN appends :
        appends[i].write =>
            LET before == appends[i].before
                after == appends[i].after
                k == Len(appends[i].inserted)
                h == HeaderIndex(before)
            IN  /\ k > 0
                /\ appends[i].count = k
                /\ Len(after) = Len(before) + k
                /\ SubSeq(after, 1, h) = SubSeq(before, 1, h)
                /\ SubSeq(after, h + k + 1, Len(after))
                      = SubSeq(before, h + 1, Len(before))
                /\ \A j \in 1..k :
                      /\ isUncompleted(after[h + j])
                      /\ cleanTaskText(after[h + j]) = appends[i].inserted[j].cleanText

----------------------------------------------------------------------------
(* Further claims about the file watcher (checked under SpecWatcher) *)

\* The number of timers the watcher holds.
Armed == IF debounceTimer.armed THEN 1 ELSE 0

\* C26: at most one debounce timer is scheduled at any time; every burst of
\* accepted notifications, each arriving while the timer of the previous one
\* is pending, gives exactly one sync call, made one debounce delay after
\* the last notification of the burst.
C26_OneSyncPerBurst ==
    /\ scheduler.live = Armed
    /\ scheduler.bursts = Len(syncCalls) + Armed
    /\ \A i \in DOMAIN syncCalls :
          /\ syncCalls[i].window # {}
          /\ syncCalls[i].at = syncCalls[i].lastAt + DebounceDelay

\* A burst whose notifications arrived at different times has been synced.
C26_Witness ==
    \E i \in DOMAIN syncCalls :
        /\ syncCalls[i].lastAt > syncCalls[i].firstAt
        /\ syncCalls[i].at < syncCalls[i].firstAt + 2 * DebounceDelay

\* C27 (as claimed): every document with an accepted notification in the
\* debounce window is covered by the scan made at expiry: the scan is a full
\* scan or the incremental scan of that document.
C27_WindowIsCovered ==
    \A i \in DOMAIN syncCalls :
        \A path \in syncCalls[i].window :
            syncCalls[i].scope \in {FullScan, path}

\* C28: once the timer has fired and no notification was accepted since, the
\* watcher holds no timer and no pending document, whether onSync returned
\* or threw; no error leaves the callback; and the first notification
\* accepted after a sync call arms a timer for its document as usual.
C28_IdleAfterTimerFires ==
    /\ (syncCalls # <<>> /\ window = {}) =>
          /\ pendingFile = NULL
          /\ debounceTimer = NoTimer
          /\ scheduler.live = 0
    /\ \A i \in DOMAIN syncCalls : ~syncCalls[i].raised
    /\ (syncCalls # <<>> /\ lastNotify.timerSet /\ ~lastNotify.timer.armed) =>
          /\ pendingFile = lastNotify.path
          /\ debounceTimer = [armed |-> TRUE, fileToSync |-> lastNotify.path]
          /\ scheduler.due = scheduler.lastAt + DebounceDelay
          /\ scheduler.due >= scheduler.now

\* A sync call threw, and the notification accepted after it has armed the
\* timer again.
C28_Witness ==
    /\ Len(syncCalls) = 1
    /\ syncCalls[1].threw
    /\ lastNotify.timerSet
    /\ ~lastNotify.timer.armed
    /\ debounceTimer.armed

----------------------------------------------------------------------------
(* Claims about failing vault calls (checked under SpecFail) *)

\* C29 (as claimed): a read or write that fails during completion
\* propagation is caught inside its cycle: no error leaves the handler, and
\* the cycle ends with the caches as they were.
C29_FailuresAreCaught ==
    \A i \in DOMAIN failLog :
        /\ ~failLog[i].raised
        /\ failLog[i].cacheKept

\* A write-back of the reverse / forward direction is in progress.
ReverseWriteBack == \E i \in DOMAIN rsHandlers : rsHandlers[i].pc \in {"srcRead", "srcWrite"}
ForwardWriteBack ==
    \E i \in DOMAIN s2dHandlers : s2dHandlers[i].pc \in {"dailyRead", "dailyWrite"}

\* C30: the isProcessing flag of a direction is set only while a write-back
\* of that direction is in progress, also after reads and writes have
\* failed; with the flag clear, a notification starts a handler.
C30_FlagOnlyDuringWriteBack ==
    /\ rsProcessing => ReverseWriteBack
    /\ s2dProcessing => ForwardWriteBack
    /\ ~rsProcessing => ReverseListener(<<>>, DailyPath, "user") # <<>>

\* A read or a modify inside a reverse write-back has failed, and nothing
\* is in flight any more.
C30_Witness ==
    /\ ~rsProcessing
    /\ \E i \in DOMAIN failLog :
          failLog[i].service = "reverse" /\ failLog[i].at \in {"srcRead", "srcWrite"}
    /\ rsHandlers = <<>>
    /\ s2dHandlers = <<>>

\* The failures of a read or a modify of syncToggleToSource.
LoopFailures ==
    {i \in DOMAIN failLog :
        failLog[i].service = "reverse" /\ failLog[i].at \in {"srcRead", "srcWrite"}}

----------------------------------------------------------------------------
(* Claims about the caches (checked under Spec) *)

\* C32 (as claimed): a step that changes a cache replaces it as a whole by a
\* freshly built snapshot: taskStateCache by the snapshot a handler has
\* parsed from its read of the daily note, syncedTasksCache by the record
\* built from the daily note.
C32_CachesReplacedWholesale ==
    [][ /\ taskStateCache' # taskStateCache =>
              \/ taskStateCache' = parseAllTaskStates(daily)
              \/ \E i \in DOMAIN rsHandlers : taskStateCache' = rsHandlers[i].newState
        /\ syncedTasksCache' # syncedTasksCache =>
              syncedTasksCache' \in {buildSyncedTasksCache(daily),
                                     buildSyncedTasksCache(daily')}
      ]_vars

\* C33 (as claimed): once every handleDailyNoteModified in flight has
\* finished, taskStateCache is the snapshot built from the latest read of
\* the daily note: a snapshot from an older read has not overwritten it.
C33_CacheIsFromLatestRead ==
    rsHandlers = <<>> => taskStateCache = lastRead

----------------------------------------------------------------------------
(* Further claims about scan and append (checked under SpecAppend) *)

\* C34 (as claimed): one appendNewTasks call inserts no two lines with the
\* same canonical text.
C34_NoTwoInsertedWithSameText ==
    \A i \in DOMAIN appends :
        \A j \in DOMAIN appends[i].inserted, k \in DOMAIN appends[i].inserted :
            j # k => appends[i].inserted[j].cleanText # appends[i].inserted[k].cleanText

\* The position of a file in the vault's order.
FileOrder(path) == CHOOSE k \in DOMAIN MarkdownFiles : MarkdownFiles[k] = path

\* C36 (as claimed): in the task list of a scan, full or incremental, every
\* 'highest' task stands before every 'high' task, and the tasks of one tier
\* are in the order in which their lines were read.
C36_ScanListIsOrdered ==
    \A i \in DOMAIN appends :
        \A j \in DOMAIN appends[i].tasks, k \in DOMAIN appends[i].tasks :
            j < k =>
                LET t == appends[i].tasks[j]
                    u == appends[i].tasks[k]
                IN  /\ ~(t.priority = "high" /\ u.priority = "highest")
                    /\ t.priority = u.priority =>
                          \/ FileOrder(t.filePath) < FileOrder(u.filePath)
                          \/ /\ t.filePath = u.filePath
                             /\ t.lineNumber < u.lineNumber

\* The content a cycle found in a document.
ContentAt(i, path) == IF path = DailyPath THEN appends[i].before ELSE Content(path)

C40_NoTaskFromDailyNote ==
    \A i \in DOMAIN appends :
        appends[i].scope = FullScan =>
            /\ \A k \in DOMAIN appends[i].tasks : appends[i].tasks[k].filePath # DailyPath
            /\ \A k \in DOMAIN appends[i].inserted :
                  appends[i].inserted[k].filePath # DailyPath

----------------------------------------------------------------------------
(* Claims about a write-back (checked under SpecDuplicate and SpecOrphan) *)

\* The positions of the checkbox lines of content with the canonical text.
LinesWithText(content, text) ==
    {i \in DOMAIN content : content[i].kind = "task" /\ content[i].text = text}

\* What a write-back of (text, checked) may do to content: nothing when no
\* line has the text or the first such line is in the requested state, and
\* else only set the bracket of the first such line.
IsLinePatch(content, r, text, checked) ==
    IF LinesWithText(content, text) = {} THEN ~r.write
    ELSE LET m == CHOOSE i \in LinesWithText(content, text) :
                      \A j \in LinesWithText(content, text) : i <= j
         IN  IF content[m].checked = checked THEN ~r.write
             ELSE /\ r.write
                  /\ Len(r.newContent) = Len(content)
                  /\ \A j \in DOMAIN content : j # m => r.newContent[j] = content[j]
                  /\ r.newContent[m].checked = checked
                  /\ r.newContent[m].kind = content[m].kind
                  /\ r.newContent[m].text = content[m].text
                  /\ r.newContent[m].prio = content[m].prio
                  /\ r.newContent[m].link = content[m].link

\* The write-backs about to be computed: of syncToggleToSource from the
\* source it reads, of updateDailyNoteTask from the daily note it reads.
SourcePatches ==
    {[content |-> Content(rsHandlers[i].changed[rsHandlers[i].k].state.sourcePath),
      text |-> rsHandlers[i].changed[rsHandlers[i].k].state.cleanText,
      checked |-> rsHandlers[i].changed[rsHandlers[i].k].nowChecked,
      r |-> syncToggleToSource(
                Content(rsHandlers[i].changed[rsHandlers[i].k].state.sourcePath),
                rsHandlers[i].changed[rsHandlers[i].k].state,
                rsHandlers[i].changed[rsHandlers[i].k].nowChecked)] :
        i \in {j \in DOMAIN rsHandlers : rsHandlers[j].pc = "srcRead"}}

DailyPatches ==
    {[content |-> daily,
      text |-> s2dHandlers[i].changes[s2dHandlers[i].k].cleanText,
      checked |-> s2dHandlers[i].changes[s2dHandlers[i].k].nowChecked,
      r |-> updateDailyNoteTask(daily, s2dHandlers[i].changes[s2dHandlers[i].k].cleanText,
                                s2dHandlers[i].changes[s2dHandlers[i].k].nowChecked)] :
        i \in {j \in DOMAIN s2dHandlers : s2dHandlers[j].pc = "dailyRead"}}

\* C35: a write-back, given the content it has read, writes that content
\* with the bracket of one line set, the first checkbox line with the task's
\* canonical text, and writes nothing when that line is in the requested
\* state already.
C35_WriteBackIsLinePatch ==
    \A p \in SourcePatches \cup DailyPatches :
        IsLinePatch(p.content, p.r, p.text, p.checked)

\* In each direction a write-back is about to patch a document that holds
\* the task's text twice, and one is about to find its line in the requested
\* state.
C35_Witness ==
    /\ \E p \in SourcePatches :
          Cardinality(LinesWithText(p.content, p.text)) = 2 /\ p.r.write
    /\ \E p \in DailyPatches :
          Cardinality(LinesWithText(p.content, p.text)) = 2

\* The step ends the i-th cycle of handleDailyNoteModified.
CycleEnds(i) == rsHandlers' = RemoveAt(rsHandlers, i)

\* The snapshot and the flipped tasks of the i-th cycle: those it has, or
\* those it gets from the read that is about to return.
CycleSnapshot(i) ==
    IF rsHandlers[i].pc = "read" THEN parseAllTaskStates(daily)
    ELSE rsHandlers[i].newState

CycleChanged(i) ==
    IF rsHandlers[i].pc = "read"
    THEN findChangedTasks(taskStateCache, parseAllTaskStates(daily))
    ELSE rsHandlers[i].changed

\* C39: a flipped task of the daily note that has no link, or whose link
\* denotes no document, or whose source holds no checkbox line with its
\* text, leads to no write; the cycle that found it runs to its end, and at
\* its end isProcessing is reset and the cache is the snapshot it has read.
C39_OrphanFlipWritesNothing ==
    [][/\ writes' = 0
       /\ \A i \in DOMAIN rsHandlers' : rsHandlers'[i].pc # "srcWrite"
       /\ \A i \in DOMAIN s2dHandlers' : s2dHandlers'[i].pc # "dailyWrite"
       /\ \A i \in DOMAIN rsHandlers :
             CycleEnds(i) /\ CycleChanged(i) # <<>> =>
                 taskStateCache' = CycleSnapshot(i) /\ ~rsProcessing']_vars

\* The user has flipped tasks of the daily note, the handlers have finished,
\* and the cache holds the flipped state of the daily note.
C39_Witness ==
    /\ Len(userLog) = 2
    /\ \A i \in DOMAIN userLog : userLog[i].path = DailyPath
    /\ userLog[1].text = "milk"
    /\ userLog[2].text # "milk"
    /\ rsHandlers = <<>>
    /\ taskStateCache = parseAllTaskStates(daily)
    /\ \E i \in DOMAIN daily :
          daily[i].kind = "task" /\ daily[i].text = "milk" /\ daily[i].checked
    /\ Content("a.md") = <<TaskLine("eggs", "high", NULL, FALSE)>>

============================================================================
